---- MODULE Spec2Model ----
(***************************************************************************)
(* A model of the bot-detection pipeline: the tiered scorer                *)
(* (src/src/bot_scorer.py), the troll-farm detector                        *)
(* (src/src/troll_farm_detector.py) and the two-pass driver (src/main.py). *)
(*                                                                         *)
(* Numbers.  Scores are Python floats that are always multiples of 0.5     *)
(* before the verification discount and multiples of 0.375 after it, so a  *)
(* score is held exactly as an integer number of eighths of a point        *)
(* (Pts(15) = 120).  Features rounded to 2 decimals are held in hundredths *)
(* and the two ratios rounded to 3 decimals in thousandths.                *)
(***************************************************************************)
EXTENDS Integers, Sequences, FiniteSets, TLC

VARIABLES
    features,              \* BotScorer.features: sequence of feature rows
    troll_farm_usernames,  \* BotScorer.troll_farm_members: set of usernames
    scores,                \* BotScorer.scores: None or Some(sequence of score rows)
    edits,                 \* number of steps taken in preparing the input
    total_in,              \* argument handed to _classify_user
    class_out,             \* what _classify_user returned for total_in
    text_in,               \* argument handed to normalize_text
    text_out,              \* None or Some(normalize_text(text_in))
    text_again,            \* None or Some(normalize_text(that result))
    data_files,            \* the tweet rows in data/october_chunk_*.csv.gz
    score_file,            \* the score CSV the detector reads: None or Some(table)
    raw_tweets,            \* TrollFarmDetector.raw_tweets: None or Some(table)
    bot_scores,            \* TrollFarmDetector.bot_scores: None or Some(table)
    troll_farms,           \* TrollFarmDetector.troll_farms: None or Some(list)
    troll_farm_members,    \* TrollFarmDetector.troll_farm_members: None or Some(table)
    last_call,             \* the latest detector call: method, and whether it raised
    identify_args,         \* None or Some(arguments and tables of the latest
                           \* identify_troll_farms call that did not raise)
    usernames_out,         \* None or Some(what get_troll_farm_usernames returned)
    final_file,            \* output/user_scores.csv: None or Some(table)
    flagged_file,          \* output/flagged_bots.csv as this run wrote it:
                           \* None or Some(table)
    outputs,               \* the output files written so far (their paths)
    pc,                    \* main: the statement it is at
    loader_raw_tweets,     \* DataLoader.raw_tweets: None or Some(table)
    user_data,             \* DataLoader.user_data: None or Some(table)
    initial_scores,        \* main's initial_scores: None or Some(table)
    accounts,              \* FeatureExtractor.user_data: the account records
    clock,                 \* the day datetime.now returns
    extracted,             \* FeatureExtractor.features: None or Some(table)
    previous_features,     \* None or Some(table an earlier extraction returned)
    extract_call           \* the latest extract_all_features call, and whether it raised

scorerVars == <<features, troll_farm_usernames, scores>>
classifyVars == <<total_in, class_out>>
textVars == <<text_in, text_out, text_again>>
diskVars == <<data_files, score_file, final_file, flagged_file, outputs>>
detectorVars == <<raw_tweets, bot_scores, troll_farms, troll_farm_members>>
callVars == <<last_call, identify_args, usernames_out>>
mainVars == <<pc, loader_raw_tweets, user_data, initial_scores>>
extractVars == <<accounts, clock, extracted, previous_features, extract_call>>

vars == <<features, troll_farm_usernames, scores, edits, total_in, class_out,
          text_in, text_out, text_again, data_files, score_file, raw_tweets,
          bot_scores, troll_farms, troll_farm_members, last_call, identify_args,
          usernames_out, final_file, flagged_file, outputs, pc, loader_raw_tweets, user_data,
          initial_scores, accounts, clock, extracted, previous_features,
          extract_call>>

\* An attribute that is None or holds a table is a set: empty for None, else
\* the singleton of the table
None == {}
Some(x) == {x}
The(o) == CHOOSE x \in o : TRUE

NaN == "NaN"
NoClass == "None"

(***************************************************************************)
(* Units                                                                   *)
(***************************************************************************)
\* n points, in eighths of a point
Pts(n) == 8 * n
\* n and a half points, in eighths of a point
HalfPts(n) == 8 * n + 4

Min(a, b) == IF a <= b THEN a ELSE b

\* Python truth value of a cell that holds "True", "False" or "NaN" (the cell of
\* a row that lacks the key in a column other rows have): bool(nan) is True
Truthy(v) == v = "True" \/ v = NaN

(***************************************************************************)
(* BotScorer._calculate_tier1_score, one operator per indicator            *)
(***************************************************************************)
Tier1FarmInverted(row, members) ==
    IF row.username \notin members THEN Pts(15) ELSE 0

Tier1FarmTen(row, members) ==
    IF row.username \in members THEN Pts(10) ELSE 0

\* troll farm membership
Tier1Farm(row, members) ==
    IF row.username \in members THEN Pts(15) ELSE 0

Tier1RatioBelow(row) ==
    LET ratio == row.follower_following_ratio IN
    IF ratio < 100 THEN Pts(15)
    ELSE IF ratio < 300 THEN Pts(10)
    ELSE IF ratio < 500 THEN Pts(5)
    ELSE 0

\* follower_following_ratio, thousandths
Tier1Ratio(row) ==
    LET ratio == row.follower_following_ratio IN
    IF ratio < 100 THEN Pts(15)
    ELSE IF ratio <= 300 THEN Pts(10)
    ELSE IF ratio <= 500 THEN Pts(5)
    ELSE 0

\* avg_engagement_per_tweet, hundredths
Tier1Engagement(row) ==
    LET engagement == row.avg_engagement_per_tweet IN
    IF engagement < 50 THEN Pts(15)
    ELSE IF engagement <= 200 THEN Pts(10)
    ELSE IF engagement <= 500 THEN Pts(5)
    ELSE 0

\* favorites_tweets_ratio, thousandths
Tier1Favorites(row) ==
    LET fav_ratio == row.favorites_tweets_ratio IN
    IF fav_ratio < 100 THEN Pts(15)
    ELSE IF fav_ratio <= 300 THEN Pts(10)
    ELSE IF fav_ratio <= 500 THEN Pts(5)
    ELSE 0

\* created_same_month_as_dataset is "True", "False" or "NaN";
\* account_created_year is a year, or 0 for a cell that is NaN or absent
\* (NaN == 2024 and the default 0 == 2024 are both False)
Tier1Age(row) ==
    IF Truthy(row.created_same_month_as_dataset) THEN Pts(15)
    ELSE IF row.account_created_year = 2024 THEN HalfPts(7)
    ELSE 0

\* lifetime_tweets_per_day, hundredths
Tier1Lifetime(row) ==
    LET lifetime_tweets == row.lifetime_tweets_per_day IN
    IF lifetime_tweets > 10000 THEN Pts(15)
    ELSE IF lifetime_tweets >= 5000 THEN Pts(10)
    ELSE IF lifetime_tweets >= 2500 THEN Pts(5)
    ELSE 0

\* reply_ratio_pct, hundredths of a percent
Tier1Reply(row) ==
    LET reply_ratio == row.reply_ratio_pct IN
    IF reply_ratio >= 8000 THEN Pts(15)
    ELSE IF reply_ratio >= 6600 THEN Pts(10)
    ELSE IF reply_ratio >= 5000 THEN Pts(5)
    ELSE 0

\* avg_text_similarity_pct, hundredths of a percent
Tier1Similarity(row) ==
    LET similarity == row.avg_text_similarity_pct IN
    IF similarity > 8000 THEN Pts(15)
    ELSE IF similarity >= 6000 THEN Pts(10)
    ELSE IF similarity >= 4000 THEN Pts(5)
    ELSE 0

\* topic_concentration_pct, hundredths of a percent
Tier1Concentration(row) ==
    LET concentration == row.topic_concentration_pct IN
    IF concentration = 10000 THEN Pts(15)
    ELSE IF concentration >= 8000 THEN Pts(10)
    ELSE IF concentration > 7000 THEN Pts(5)
    ELSE 0

Tier1AgeBoth(row) ==
    (IF Truthy(row.created_same_month_as_dataset) THEN Pts(15) ELSE 0)
    + (IF row.account_created_year = 2024 THEN HalfPts(7) ELSE 0)

calculate_tier1_score_age_both(row, members) ==
    Tier1Farm(row, members) + Tier1Ratio(row) + Tier1Engagement(row)
    + Tier1Favorites(row) + Tier1AgeBoth(row) + Tier1Lifetime(row)
    + Tier1Reply(row) + Tier1Similarity(row) + Tier1Concentration(row)

calculate_tier1_score(row, members) ==
    Tier1Farm(row, members) + Tier1Ratio(row) + Tier1Engagement(row)
    + Tier1Favorites(row) + Tier1Age(row) + Tier1Lifetime(row)
    + Tier1Reply(row) + Tier1Similarity(row) + Tier1Concentration(row)

(***************************************************************************)
(* BotScorer._calculate_tier2_score                                        *)
(***************************************************************************)
\* posting_freq_tweets_per_day, hundredths
Tier2Frequency(row) ==
    LET tweets_per_day == row.posting_freq_tweets_per_day IN
    IF tweets_per_day > 5000 THEN Pts(10)
    ELSE IF tweets_per_day >= 3000 THEN Pts(7)
    ELSE IF tweets_per_day >= 2000 THEN Pts(3)
    ELSE 0

calculate_tier2_score(row) ==
    Tier2Frequency(row)
    + (IF row.bot_username_pattern THEN Pts(10) ELSE 0)
    + (IF row.has_default_profile_image THEN Pts(10) ELSE 0)

(***************************************************************************)
(* BotScorer._calculate_tier3_score                                        *)
(***************************************************************************)
Tier3Hashtags(row) ==
    IF row.avg_hashtags_per_tweet > 300 THEN Pts(5)
    ELSE IF row.has_long_hashtag THEN Pts(3)
    ELSE 0

Tier3Retweets(row) ==
    LET retweet_ratio == row.retweet_ratio_pct IN
    IF retweet_ratio > 8000 THEN Pts(5)
    ELSE IF retweet_ratio >= 6000 THEN Pts(3)
    ELSE 0

Tier3Profile(row) ==
    LET profile_score == (IF row.has_empty_description THEN Pts(2) ELSE 0)
                         + (IF row.has_no_location THEN Pts(2) ELSE 0)
    IN  Min(profile_score, Pts(5))

Tier3Mentions(row) ==
    IF row.avg_mentions_per_tweet > 300 THEN Pts(5) ELSE 0

calculate_tier3_score(row) ==
    Tier3Hashtags(row) + Tier3Retweets(row) + Tier3Profile(row)
    + Tier3Mentions(row)

(***************************************************************************)
(* BotScorer._classify_user and the columns calculate_all_scores derives   *)
(***************************************************************************)
classify_user_strict(total_score) ==
    IF total_score < Pts(35) THEN "Likely Human"
    ELSE IF total_score < Pts(60) THEN "Suspicious"
    ELSE IF total_score < Pts(85) THEN "Likely Bot"
    ELSE "Definite Bot"

classify_user(total_score) ==
    IF total_score <= Pts(35) THEN "Likely Human"
    ELSE IF total_score <= Pts(60) THEN "Suspicious"
    ELSE IF total_score <= Pts(85) THEN "Likely Bot"
    ELSE "Definite Bot"

IsVerifiedOnly(is_verified, has_blue) == is_verified

is_verified_or_blue(is_verified, has_blue) == is_verified \/ has_blue

\* total_score_before_verification * 0.75: the argument is a multiple of 4
\* eighths (half a point), so the product is a whole number of eighths
Discounted(before) == (before * 3) \div 4

total_score(before, verified_or_blue) ==
    IF verified_or_blue THEN Discounted(before) ELSE before

FlaggedAbove85(total) == total > Pts(85)

flagged_for_review(total) == total >= Pts(86)

ScoreRow(row, members) ==
    LET t1 == calculate_tier1_score(row, members)
        t2 == calculate_tier2_score(row)
        t3 == calculate_tier3_score(row)
        before == t1 + t2 + t3
        vb == is_verified_or_blue(row.is_verified, row.has_blue)
        total == total_score(before, vb)
    IN  [username |-> row.username,
         user_id |-> row.user_id,
         tier1_score |-> t1,
         tier2_score |-> t2,
         tier3_score |-> t3,
         total_score_before_verification |-> before,
         is_verified |-> row.is_verified,
         has_blue |-> row.has_blue,
         is_verified_or_blue |-> vb,
         total_score |-> total,
         classification |-> classify_user(total),
         flagged_for_review |-> flagged_for_review(total)]

calculate_all_scores(feats, members) ==
    [i \in 1..Len(feats) |-> ScoreRow(feats[i], members)]

ScoredInPlace(features_df, score_table) ==
    [i \in 1..Len(features_df) |->
        [total_score |-> score_table[i].total_score] @@ features_df[i]]

\* the table the caller handed to BotScorer, after calculate_all_scores:
\* __init__ keeps features_df.copy() and calculate_all_scores writes its
\* columns into the new frame self.scores only
CallerFeatures(features_df, score_table) == features_df

(***************************************************************************)
(* TrollFarmDetector.normalize_text.  A text is a sequence of one-character *)
(* strings; a NaN cell is the sequence <<NaN>>.                             *)
(***************************************************************************)
NaText == <<NaN>>

\* str.isspace / the regex class \s
IsSpace(c) == c \in {" ", "\t"}

\* str.lower on one character
LowerChar(c) ==
    CASE c = "H" -> "h"
      [] c = "T" -> "t"
      [] c = "P" -> "p"
      [] c = "S" -> "s"
      [] OTHER -> c

IsUpperChar(c) == c \in {"H", "T", "P", "S"}

lower(text) == [i \in 1..Len(text) |-> LowerChar(text[i])]

\* the text from position i on
Suffix(text, i) == SubSeq(text, i, Len(text))

StartsWith(text, prefix) ==
    /\ Len(text) >= Len(prefix)
    /\ SubSeq(text, 1, Len(prefix)) = prefix

\* the pattern http\S+|https\S+ matches at the start of text
UrlAtStart(text) ==
    \/ /\ StartsWith(text, <<"h", "t", "t", "p">>)
       /\ Len(text) >= 5 /\ ~IsSpace(text[5])
    \/ /\ StartsWith(text, <<"h", "t", "t", "p", "s">>)
       /\ Len(text) >= 6 /\ ~IsSpace(text[6])

\* text without its leading run of non-whitespace (what a greedy \S+ consumes)
RECURSIVE SkipNonSpace(_)
SkipNonSpace(text) ==
    IF text = <<>> \/ IsSpace(Head(text)) THEN text
    ELSE SkipNonSpace(Tail(text))

\* re.sub(r'http\S+|https\S+', '', text): leftmost matches, left to right
RECURSIVE RemoveUrls(_)
RemoveUrls(text) ==
    IF text = <<>> THEN <<>>
    ELSE IF UrlAtStart(text) THEN RemoveUrls(SkipNonSpace(text))
    ELSE <<Head(text)>> \o RemoveUrls(Tail(text))

RECURSIVE SkipSpace(_)
SkipSpace(text) ==
    IF text = <<>> \/ ~IsSpace(Head(text)) THEN text
    ELSE SkipSpace(Tail(text))

\* re.sub(r'\s+', ' ', text)
RECURSIVE CollapseSpace(_)
CollapseSpace(text) ==
    IF text = <<>> THEN <<>>
    ELSE IF IsSpace(Head(text)) THEN <<" ">> \o CollapseSpace(SkipSpace(text))
    ELSE <<Head(text)>> \o CollapseSpace(Tail(text))

RECURSIVE DropTrailingSpace(_)
DropTrailingSpace(text) ==
    IF text = <<>> \/ ~IsSpace(text[Len(text)]) THEN text
    ELSE DropTrailingSpace(SubSeq(text, 1, Len(text) - 1))

\* str.strip
strip(text) == DropTrailingSpace(SkipSpace(text))

normalize_text_urls_last(text) ==
    IF text = NaText \/ text = <<>> THEN <<>>
    ELSE strip(RemoveUrls(CollapseSpace(lower(text))))

normalize_text(text) ==
    IF text = NaText \/ text = <<>> THEN <<>>
    ELSE strip(CollapseSpace(RemoveUrls(lower(text))))

(***************************************************************************)
(* TrollFarmDetector.  A tweet row is [username, text, retweetedTweet];    *)
(* identify_troll_farms adds the column normalized_text.  A cell of        *)
(* retweetedTweet is written with its Python type: "null" (NaN/None),      *)
(* "bool:False", "bool:True", "int:<number>" or "str:<text>".              *)
(***************************************************************************)
\* a float cell that is NaN (scores are never negative)
NaNScore == 0 - 1

\* the mask of filter_original_tweets
AllTweets(tweets) == tweets

IsOriginalCell(cell) ==
    \/ cell = "null"
    \/ cell = "bool:False"
    \/ cell = "int:0"          \* 0 == False
    \/ cell = "str:False"
    \/ cell = "str:"
    \/ cell = "str:nan"
    \/ cell = "str:[]"

SelectRows(table, Keep(_)) == SelectSeq(table, Keep)

filter_original_tweets(tweets) ==
    SelectRows(tweets, LAMBDA row : IsOriginalCell(row.retweetedTweet))

\* the distinct entries of a sequence in order of first occurrence (the key
\* order of a dict filled in one pass over the sequence)
RECURSIVE FirstSeen(_)
FirstSeen(seq) ==
    IF seq = <<>> THEN <<>>
    ELSE LET init == FirstSeen(SubSeq(seq, 1, Len(seq) - 1))
             last == seq[Len(seq)]
         IN  IF \E i \in 1..Len(init) : init[i] = last THEN init
             ELSE Append(init, last)

RECURSIVE Flatten(_)
Flatten(seqs) ==
    IF seqs = <<>> THEN <<>> ELSE Head(seqs) \o Flatten(Tail(seqs))

\* raw_tweets with the normalized_text column, rows with empty text removed
NormalizedTweets(tweets) ==
    LET withText == [i \in 1..Len(tweets) |->
                        [username |-> tweets[i].username,
                         text |-> tweets[i].text,
                         retweetedTweet |-> tweets[i].retweetedTweet,
                         normalized_text |-> normalize_text(tweets[i].text)]]
    IN  SelectRows(withText, LAMBDA row : row.normalized_text # <<>>)

\* keys of message_groups, in insertion order
GroupMessages(tweets) ==
    FirstSeen([i \in 1..Len(tweets) |-> tweets[i].normalized_text])

GroupPosts(tweets, message) ==
    LET rows == SelectRows(tweets, LAMBDA row : row.normalized_text = message)
    IN  [i \in 1..Len(rows) |-> rows[i].username]

\* keys of message_groups[message], in insertion order
GroupUsers(tweets, message) ==
    LET rows == SelectRows(tweets, LAMBDA row : row.normalized_text = message)
    IN  FirstSeen([i \in 1..Len(rows) |-> rows[i].username])

\* message_groups[message][username]
MessageFrequency(tweets, message, username) ==
    Cardinality({i \in 1..Len(tweets) :
                    /\ tweets[i].normalized_text = message
                    /\ tweets[i].username = username})

\* users_df.merge(bot_scores[[username, classification, total_score]],
\*                on='username', how='left')
MergeScores(users, message, tweets, score_table) ==
    LET RowsFor(u) ==
            LET hits == SelectRows(score_table, LAMBDA r : r.username = u)
                freq == MessageFrequency(tweets, message, u)
            IN  IF hits = <<>>
                THEN <<[username |-> u, message_frequency |-> freq,
                        classification |-> NaN, total_score |-> NaNScore]>>
                ELSE [j \in 1..Len(hits) |->
                        [username |-> u, message_frequency |-> freq,
                         classification |-> hits[j].classification,
                         total_score |-> hits[j].total_score]]
    IN  Flatten([i \in 1..Len(users) |-> RowsFor(users[i])])

bot_labels == {"Suspicious", "Likely Bot", "Definite Bot"}

BotCountNotHuman(users_df) ==
    Cardinality({i \in 1..Len(users_df) : users_df[i].classification # "Likely Human"})

\* users_df['classification'].isin(bot_labels).sum()
BotCount(users_df) ==
    Cardinality({i \in 1..Len(users_df) : users_df[i].classification \in bot_labels})

\* the group of one message as a candidate farm
Candidate(tweets, score_table, message) ==
    LET unique_users == GroupUsers(tweets, message)
        users_df == MergeScores(unique_users, message, tweets, score_table)
    IN  [shared_message |-> message,
         farm_size |-> Len(unique_users),
         farm_bot_count |-> BotCount(users_df),
         users_data |-> users_df]

SizeAbove(farm, min_accounts) == farm.farm_size > min_accounts

\* num_users >= min_accounts
SizeQualifies(farm, min_accounts) == farm.farm_size >= min_accounts

\* (bot_count / num_users) * 100 >= min_bot_percentage, on exact fractions
PercentageQualifies(farm, min_bot_percentage) ==
    100 * farm.farm_bot_count >= min_bot_percentage * farm.farm_size

PotentialFarms(tweets, score_table, min_accounts, min_bot_percentage) ==
    LET messages == GroupMessages(tweets)
        all == [i \in 1..Len(messages) |-> Candidate(tweets, score_table, messages[i])]
    IN  SelectRows(all, LAMBDA farm :
            /\ SizeQualifies(farm, min_accounts)
            /\ PercentageQualifies(farm, min_bot_percentage))

\* the decimal digits of n >= 0: str(n)
RECURSIVE Decimal(_)
Decimal(n) == IF n < 10 THEN <<n>> ELSE Append(Decimal(n \div 10), n % 10)

\* a < b for strings of digits, compared as Python compares str
RECURSIVE StrLess(_, _)
StrLess(a, b) ==
    IF b = <<>> THEN FALSE
    ELSE IF a = <<>> THEN TRUE
    ELSE IF Head(a) # Head(b) THEN Head(a) < Head(b)
    ELSE StrLess(Tail(a), Tail(b))

\* row a sorts strictly before row b under
\* sort_values(['troll_farm_id', 'total_score'], ascending=[True, False]);
\* troll_farm_id holds k for the string "troll_farm_k"; NaN scores go last
MemberBefore(a, b) ==
    \/ StrLess(Decimal(a.troll_farm_id), Decimal(b.troll_farm_id))
    \/ /\ a.troll_farm_id = b.troll_farm_id
       /\ a.total_score # NaNScore
       /\ (b.total_score = NaNScore \/ a.total_score > b.total_score)

\* stable insertion of row into a sorted table
RECURSIVE InsertMember(_, _)
InsertMember(sorted, row) ==
    IF sorted = <<>> THEN <<row>>
    ELSE IF MemberBefore(row, Head(sorted)) THEN <<row>> \o sorted
    ELSE <<Head(sorted)>> \o InsertMember(Tail(sorted), row)

\* stable sort: later rows are inserted after the rows they tie with
RECURSIVE SortMembers(_)
SortMembers(table) ==
    IF table = <<>> THEN <<>>
    ELSE InsertMember(SortMembers(SubSeq(table, 1, Len(table) - 1)),
                      table[Len(table)])

\* the rows of farm number farm_id
FarmMembers(farm, farm_id) ==
    [i \in 1..Len(farm.users_data) |->
        [username |-> farm.users_data[i].username,
         message_frequency |-> farm.users_data[i].message_frequency,
         bot_label |-> farm.users_data[i].classification,
         total_score |-> farm.users_data[i].total_score,
         troll_farm_id |-> farm_id,
         shared_message |-> farm.shared_message,
         farm_size |-> farm.farm_size,
         farm_bot_percentage |-> <<100 * farm.farm_bot_count, farm.farm_size>>]]

\* the table identify_troll_farms stores and returns; farm_bot_percentage is
\* the exact fraction <<numerator, denominator>>
identify_troll_farms(tweets, score_table, min_accounts, min_bot_percentage) ==
    LET farms == PotentialFarms(NormalizedTweets(tweets), score_table,
                                min_accounts, min_bot_percentage)
    IN  SortMembers(Flatten([k \in 1..Len(farms) |-> FarmMembers(farms[k], k)]))

UsernamesOfFirstRow(members) ==
    IF members = None \/ The(members) = <<>> THEN {}
    ELSE {The(members)[1].username}

\* get_troll_farm_usernames on the attribute troll_farm_members
get_troll_farm_usernames(members) ==
    IF members = None \/ Len(The(members)) = 0 THEN {}
    ELSE {The(members)[i].username : i \in 1..Len(The(members))}

(***************************************************************************)
(* BotScorer.get_flagged_accounts and BotScorer.save_flagged_accounts      *)
(***************************************************************************)
\* the flagged rows in the order of the score table
FlaggedUnsorted(score_table) ==
    SelectSeq(score_table, LAMBDA row : row.flagged_for_review)

\* stable insertion of row into a table sorted by descending total_score
RECURSIVE InsertFlagged(_, _)
InsertFlagged(sorted, row) ==
    IF sorted = <<>> THEN <<row>>
    ELSE IF row.total_score > Head(sorted).total_score THEN <<row>> \o sorted
    ELSE <<Head(sorted)>> \o InsertFlagged(Tail(sorted), row)

\* sort_values('total_score', ascending=False); rows that tie keep their order
RECURSIVE SortFlagged(_)
SortFlagged(table) ==
    IF table = <<>> THEN <<>>
    ELSE InsertFlagged(SortFlagged(SubSeq(table, 1, Len(table) - 1)),
                       table[Len(table)])

\* self.scores[self.scores['flagged_for_review'] == True], then sort_values
get_flagged_accounts(score_table) ==
    SortFlagged(SelectSeq(score_table, LAMBDA row : row.flagged_for_review))

\* flagged.merge(self.features[[...]], on='username', how='left'): every
\* flagged row once per feature row of its username, with the feature columns
\* of the detail list
MergeFeatures(flagged, feats) ==
    LET RowsFor(row) ==
            LET hits == SelectSeq(feats, LAMBDA f : f.username = row.username)
            IN  IF hits = <<>>
                THEN <<[score |-> row,
                        posting_freq_tweets_per_day |-> NaN,
                        follower_following_ratio |-> NaN,
                        avg_engagement_per_tweet |-> NaN]>>
                ELSE [j \in 1..Len(hits) |->
                        [score |-> row,
                         posting_freq_tweets_per_day |-> hits[j].posting_freq_tweets_per_day,
                         follower_following_ratio |-> hits[j].follower_following_ratio,
                         avg_engagement_per_tweet |-> hits[j].avg_engagement_per_tweet]]
    IN  Flatten([i \in 1..Len(flagged) |-> RowsFor(flagged[i])])

\* what output/flagged_bots.csv holds after save_flagged_accounts, given what
\* it held before: nothing is written when no account is flagged
save_flagged_accounts(score_table, feats, file) ==
    LET flagged == get_flagged_accounts(score_table)
    IN  IF Len(flagged) = 0 THEN file
        ELSE Some(MergeFeatures(flagged, feats))

(***************************************************************************)
(* The parts a specification leaves untouched                              *)
(***************************************************************************)
CallSwallowed(op, raised) == [op |-> op, raised |-> FALSE]

\* a method call as the caller sees it: it returned, or raised ValueError
Call(op, raised) == [op |-> op, raised |-> raised]
NoCall == Call("none", FALSE)

ScorerIdle == features = <<>> /\ troll_farm_usernames = {} /\ scores = None
ClassifyIdle == total_in = 0 /\ class_out = NoClass
TextIdle == text_in = <<>> /\ text_out = None /\ text_again = None
DiskIdle ==
    /\ data_files = <<>> /\ score_file = None
    /\ final_file = None /\ flagged_file = None /\ outputs = {}
DetectorIdle ==
    /\ raw_tweets = None /\ bot_scores = None
    /\ troll_farms = None /\ troll_farm_members = None
    /\ last_call = NoCall /\ identify_args = None /\ usernames_out = None

MainIdle ==
    /\ pc = "idle" /\ loader_raw_tweets = None
    /\ user_data = None /\ initial_scores = None

ExtractIdle ==
    /\ accounts = <<>> /\ clock = 0
    /\ extracted = None /\ previous_features = None /\ extract_call = NoCall

(***************************************************************************)
(* Inputs of the scorer specification: feature rows within MaxEdits field  *)
(* changes of three base rows                                              *)
(***************************************************************************)
MaxEdits == 2

\* no indicator scores
QuietRow ==
    [username |-> "bot_1", user_id |-> "1",
     follower_following_ratio |-> 999000, avg_engagement_per_tweet |-> 600,
     favorites_tweets_ratio |-> 600, account_created_year |-> 2020,
     created_same_month_as_dataset |-> "False",
     lifetime_tweets_per_day |-> 0, reply_ratio_pct |-> 0,
     avg_text_similarity_pct |-> 0, topic_concentration_pct |-> 0,
     posting_freq_tweets_per_day |-> 0, bot_username_pattern |-> FALSE,
     has_default_profile_image |-> FALSE, avg_hashtags_per_tweet |-> 0,
     has_long_hashtag |-> FALSE, retweet_ratio_pct |-> 0,
     has_empty_description |-> FALSE, has_no_location |-> FALSE,
     avg_mentions_per_tweet |-> 0, is_verified |-> FALSE, has_blue |-> FALSE]

\* every indicator in its top band
LoudRow ==
    [username |-> "bot_1", user_id |-> "1",
     follower_following_ratio |-> 0, avg_engagement_per_tweet |-> 0,
     favorites_tweets_ratio |-> 0, account_created_year |-> 2024,
     created_same_month_as_dataset |-> "True",
     lifetime_tweets_per_day |-> 10001, reply_ratio_pct |-> 10000,
     avg_text_similarity_pct |-> 10000, topic_concentration_pct |-> 10000,
     posting_freq_tweets_per_day |-> 5001, bot_username_pattern |-> TRUE,
     has_default_profile_image |-> TRUE, avg_hashtags_per_tweet |-> 301,
     has_long_hashtag |-> TRUE, retweet_ratio_pct |-> 8001,
     has_empty_description |-> TRUE, has_no_location |-> TRUE,
     avg_mentions_per_tweet |-> 301, is_verified |-> FALSE, has_blue |-> FALSE]

\* five tier-1 indicators in the top band and the lowest posting band: 78 points
BorderRow ==
    [QuietRow EXCEPT !.follower_following_ratio = 0,
                     !.avg_engagement_per_tweet = 0,
                     !.favorites_tweets_ratio = 0,
                     !.reply_ratio_pct = 10000,
                     !.avg_text_similarity_pct = 10000,
                     !.posting_freq_tweets_per_day = 2000]

BaseRows == {QuietRow, LoudRow, BorderRow}

Booleans == {TRUE, FALSE}

FeatureFields ==
    {"follower_following_ratio", "avg_engagement_per_tweet",
     "favorites_tweets_ratio", "account_created_year",
     "created_same_month_as_dataset", "lifetime_tweets_per_day",
     "reply_ratio_pct", "avg_text_similarity_pct", "topic_concentration_pct",
     "posting_freq_tweets_per_day", "bot_username_pattern",
     "has_default_profile_image", "avg_hashtags_per_tweet", "has_long_hashtag",
     "retweet_ratio_pct", "has_empty_description", "has_no_location",
     "avg_mentions_per_tweet", "is_verified", "has_blue"}

\* the values a field is set to: one in each band and the band edges
FieldValues(f) ==
    CASE f \in {"follower_following_ratio", "favorites_tweets_ratio"}
            -> {0, 99, 100, 300, 500, 501}
      [] f = "avg_engagement_per_tweet" -> {0, 49, 50, 200, 500, 501}
      [] f = "account_created_year" -> {0, 2020, 2024}
      [] f = "created_same_month_as_dataset" -> {"True", "False", NaN}
      [] f = "lifetime_tweets_per_day" -> {0, 2500, 5000, 10000, 10001}
      [] f = "reply_ratio_pct" -> {0, 5000, 6600, 8000}
      [] f = "avg_text_similarity_pct" -> {0, 4000, 6000, 8000, 8001}
      [] f = "topic_concentration_pct" -> {0, 7000, 7001, 8000, 10000}
      [] f = "posting_freq_tweets_per_day" -> {0, 2000, 3000, 5000, 5001}
      [] f \in {"avg_hashtags_per_tweet", "avg_mentions_per_tweet"}
            -> {0, 300, 301}
      [] f = "retweet_ratio_pct" -> {0, 6000, 8000, 8001}
      [] OTHER -> Booleans

FarmSets == {{}, {"bot_1"}, {"bot_1", "bot_2"}, {"bot_2"}}

(***************************************************************************)
(* The scorer on its own: a feature table of one row is prepared, a        *)
(* BotScorer is constructed on it and calculate_all_scores runs            *)
(***************************************************************************)
InitScore ==
    /\ features \in {<<r>> : r \in BaseRows}
    /\ troll_farm_usernames \in FarmSets
    /\ scores = None
    /\ edits = 0
    /\ ClassifyIdle /\ TextIdle /\ DiskIdle /\ DetectorIdle
    /\ MainIdle
    /\ ExtractIdle

\* the caller prepares the feature table
EditFeature ==
    /\ scores = None
    /\ edits < MaxEdits
    /\ \E f \in FeatureFields : \E v \in FieldValues(f) :
          /\ features[1][f] # v
          /\ features' = <<[features[1] EXCEPT ![f] = v]>>
    /\ edits' = edits + 1
    /\ UNCHANGED <<troll_farm_usernames, scores, classifyVars, textVars,
                   diskVars, detectorVars, callVars>>
    /\ UNCHANGED mainVars
    /\ UNCHANGED extractVars

\* BotScorer.calculate_all_scores
CalculateAllScores ==
    /\ scores = None
    /\ scores' = Some(calculate_all_scores(features, troll_farm_usernames))
    /\ features' = CallerFeatures(features, The(scores'))
    /\ UNCHANGED <<troll_farm_usernames, edits, classifyVars,
                   textVars, diskVars, detectorVars, callVars>>
    /\ UNCHANGED mainVars
    /\ UNCHANGED extractVars

NextScore == EditFeature \/ CalculateAllScores

SpecScore == InitScore /\ [][NextScore]_vars

(***************************************************************************)
(* _classify_user on its own, over every total up to the maximum           *)
(***************************************************************************)
MaxTotalPoints == 185

InitClassify ==
    /\ total_in \in 0..Pts(MaxTotalPoints)
    /\ class_out = NoClass
    /\ edits = 0
    /\ ScorerIdle /\ TextIdle /\ DiskIdle /\ DetectorIdle
    /\ MainIdle
    /\ ExtractIdle

Classify ==
    /\ class_out = NoClass
    /\ class_out' = classify_user(total_in)
    /\ UNCHANGED <<total_in, scorerVars, edits, textVars, diskVars,
                   detectorVars, callVars>>
    /\ UNCHANGED mainVars
    /\ UNCHANGED extractVars

NextClassify == Classify

SpecClassify == InitClassify /\ [][NextClassify]_vars

(***************************************************************************)
(* normalize_text on its own: a raw text is put together from at most      *)
(* MaxPieces pieces, normalized, and the result normalized again           *)
(***************************************************************************)
MaxPieces == 6

Pieces ==
    {<<"h", "t", "t", "p">>, <<"H", "T", "T", "P">>, <<"h", "t">>,
     <<"s">>, <<" ">>, <<"\t">>}

InitNorm ==
    /\ text_in \in {<<>>, NaText}
    /\ text_out = None
    /\ text_again = None
    /\ edits = 0
    /\ ScorerIdle /\ ClassifyIdle /\ DiskIdle /\ DetectorIdle
    /\ MainIdle
    /\ ExtractIdle

\* the raw text grows by one piece
ExtendText ==
    /\ text_out = None
    /\ text_in # NaText
    /\ edits < MaxPieces
    /\ \E piece \in Pieces : text_in' = text_in \o piece
    /\ edits' = edits + 1
    /\ UNCHANGED <<text_out, text_again, scorerVars, classifyVars, diskVars,
                   detectorVars, callVars>>
    /\ UNCHANGED mainVars
    /\ UNCHANGED extractVars

\* y = normalize_text(x)
NormalizeText ==
    /\ text_out = None
    /\ text_out' = Some(normalize_text(text_in))
    /\ UNCHANGED <<text_in, text_again, edits, scorerVars, classifyVars,
                   diskVars, detectorVars, callVars>>
    /\ UNCHANGED mainVars
    /\ UNCHANGED extractVars

\* normalize_text(y)
NormalizeAgain ==
    /\ text_out # None
    /\ text_again = None
    /\ text_again' = Some(normalize_text(The(text_out)))
    /\ UNCHANGED <<text_in, text_out, edits, scorerVars, classifyVars,
                   diskVars, detectorVars, callVars>>
    /\ UNCHANGED mainVars
    /\ UNCHANGED extractVars

NextNorm == ExtendText \/ NormalizeText \/ NormalizeAgain

SpecNorm == InitNorm /\ [][NextNorm]_vars

(***************************************************************************)
(* The detector on its own.  The data files are either put together from   *)
(* at most MaxTweets rows by two accounts, or hold a cohort: n accounts    *)
(* that each post the same original text once, the first k of them scored  *)
(* "Definite Bot" and the others "Likely Human".  A run loads, filters at  *)
(* most once, identifies at most once, and ends by asking for the          *)
(* usernames; every method may also be called while its data is missing.   *)
(***************************************************************************)
MaxTweets == 3
MaxCohort == 10

DefaultMinAccounts == 10
DefaultMinBotPercentage == 50

WithUser(row, username, user_id) ==
    [row EXCEPT !.username = username, !.user_id = user_id]

Tweet(username, text, cell) ==
    [username |-> username, text |-> text, retweetedTweet |-> cell]

\* two spellings of one message, and another message
RawTexts == {<<"s">>, <<"S", " ">>, <<"h", "t">>}

\* original posts of the messages, a post that is only a URL, and a retweet
TweetChoices ==
    {Tweet(u, t, "null") : u \in {"u1", "u2"}, t \in RawTexts}
    \cup {Tweet("u1", <<"H", "T", "T", "P", "s">>, "null"),
          Tweet("u2", <<"s">>, "bool:True")}

\* score tables as calculate_all_scores writes them
ScoreTables ==
    {calculate_all_scores(<<WithUser(LoudRow, "u1", "1"), WithUser(QuietRow, "u2", "2")>>, {}),
     calculate_all_scores(<<WithUser(BorderRow, "u1", "1"),
                            WithUser([BorderRow EXCEPT !.reply_ratio_pct = 0,
                                                       !.avg_text_similarity_pct = 0],
                                     "u2", "2")>>, {}),
     calculate_all_scores(<<WithUser(LoudRow, "u2", "2")>>, {})}

CohortNames ==
    <<"acct_01", "acct_02", "acct_03", "acct_04", "acct_05", "acct_06",
      "acct_07", "acct_08", "acct_09", "acct_10", "acct_11", "acct_12">>

CohortTweets(n) == [i \in 1..n |-> Tweet(CohortNames[i], <<"s">>, "null")]

CohortFeatures(n, k) ==
    [i \in 1..n |-> WithUser(IF i <= k THEN LoudRow ELSE QuietRow,
                             CohortNames[i], CohortNames[i])]

CohortScores(n, k) == calculate_all_scores(CohortFeatures(n, k), {})

\* k messages, each posted once by u2 and then once by u1; u1 scores higher
MaxMessages == 11

MessageTweets(k) ==
    [j \in 1..(2 * k) |->
        Tweet(IF j % 2 = 1 THEN "u2" ELSE "u1",
              [c \in 1..((j + 1) \div 2) |-> "s"], "null")]

MessageScores ==
    calculate_all_scores(<<WithUser(BorderRow, "u2", "2"),
                           WithUser(LoudRow, "u1", "1")>>, {})

\* the (min_accounts, min_bot_percentage) pairs identify_troll_farms is called with
ThresholdChoices ==
    {<<1, DefaultMinBotPercentage>>, <<2, DefaultMinBotPercentage>>, <<2, 100>>,
     <<DefaultMinAccounts, DefaultMinBotPercentage>>,
     <<0 - 1, DefaultMinBotPercentage>>}

InitFarm ==
    /\ \/ /\ data_files = <<>>
          /\ score_file \in {Some(t) : t \in ScoreTables}
          /\ edits = 0
       \/ \E n \in 1..MaxCohort : \E k \in 0..n :
            /\ data_files = CohortTweets(n)
            /\ score_file = Some(CohortScores(n, k))
            /\ edits = MaxTweets
       \/ \E k \in 1..MaxMessages :
            /\ data_files = MessageTweets(k)
            /\ score_file = Some(MessageScores)
            /\ edits = MaxTweets
    /\ ScorerIdle /\ ClassifyIdle /\ TextIdle /\ DetectorIdle
    /\ MainIdle
    /\ final_file = None /\ flagged_file = None /\ outputs = {}
    /\ ExtractIdle

\* one more row in the data files, before the detector is used
AddTweet ==
    /\ last_call = NoCall
    /\ edits < MaxTweets
    /\ \E t \in TweetChoices : data_files' = Append(data_files, t)
    /\ edits' = edits + 1
    /\ UNCHANGED <<score_file, final_file, flagged_file, outputs, scorerVars, classifyVars, textVars,
                   detectorVars, callVars>>
    /\ UNCHANGED mainVars
    /\ UNCHANGED extractVars

\* TrollFarmDetector.load_data: raises when nothing was loaded
LoadData ==
    /\ raw_tweets = None /\ usernames_out = None
    /\ IF data_files = <<>>
       THEN /\ last_call' = Call("load_data", TRUE)
            /\ UNCHANGED raw_tweets
       ELSE /\ last_call' = Call("load_data", FALSE)
            /\ raw_tweets' = Some(data_files)
    /\ UNCHANGED <<bot_scores, troll_farms, troll_farm_members, identify_args,
                   usernames_out, edits, diskVars, scorerVars, classifyVars,
                   textVars>>
    /\ UNCHANGED mainVars
    /\ UNCHANGED extractVars

\* TrollFarmDetector.load_bot_scores
LoadBotScores ==
    /\ bot_scores = None /\ usernames_out = None
    /\ score_file # None
    /\ bot_scores' = score_file
    /\ last_call' = Call("load_bot_scores", FALSE)
    /\ UNCHANGED <<raw_tweets, troll_farms, troll_farm_members, identify_args,
                   usernames_out, edits, diskVars, scorerVars, classifyVars,
                   textVars>>
    /\ UNCHANGED mainVars
    /\ UNCHANGED extractVars

\* TrollFarmDetector.filter_original_tweets
FilterOriginalTweets ==
    /\ identify_args = None /\ usernames_out = None
    /\ last_call.op # "filter_original_tweets"
    /\ IF raw_tweets = None
       THEN /\ last_call' = Call("filter_original_tweets", TRUE)
            /\ UNCHANGED raw_tweets
       ELSE /\ last_call' = Call("filter_original_tweets", FALSE)
            /\ raw_tweets' = Some(filter_original_tweets(The(raw_tweets)))
    /\ UNCHANGED <<bot_scores, troll_farms, troll_farm_members, identify_args,
                   usernames_out, edits, diskVars, scorerVars, classifyVars,
                   textVars>>
    /\ UNCHANGED mainVars
    /\ UNCHANGED extractVars

\* TrollFarmDetector.identify_troll_farms(min_accounts, min_bot_percentage)
IdentifyTrollFarms(min_accounts, min_bot_percentage) ==
    /\ identify_args = None /\ usernames_out = None
    /\ IF raw_tweets = None \/ bot_scores = None
       THEN /\ last_call' = Call("identify_troll_farms", TRUE)
            /\ UNCHANGED <<raw_tweets, troll_farms, troll_farm_members,
                           identify_args>>
       ELSE LET members == identify_troll_farms(The(raw_tweets), The(bot_scores),
                                                min_accounts, min_bot_percentage)
            IN  /\ last_call' = Call("identify_troll_farms", FALSE)
                /\ identify_args' = Some([min_accounts |-> min_accounts,
                                          min_bot_percentage |-> min_bot_percentage,
                                          tweets |-> The(raw_tweets),
                                          score_table |-> The(bot_scores)])
                /\ raw_tweets' = Some(NormalizedTweets(The(raw_tweets)))
                /\ troll_farm_members' = Some(members)
                /\ troll_farms' = IF members = <<>> THEN Some(<<>>) ELSE troll_farms
    /\ UNCHANGED <<bot_scores, usernames_out, edits, diskVars, scorerVars,
                   classifyVars, textVars>>
    /\ UNCHANGED mainVars
    /\ UNCHANGED extractVars

\* TrollFarmDetector.get_troll_farm_usernames
GetTrollFarmUsernames ==
    /\ usernames_out = None
    /\ usernames_out' = Some(get_troll_farm_usernames(troll_farm_members))
    /\ last_call' = Call("get_troll_farm_usernames", FALSE)
    /\ UNCHANGED <<detectorVars, identify_args, edits, diskVars, scorerVars,
                   classifyVars, textVars>>
    /\ UNCHANGED mainVars
    /\ UNCHANGED extractVars

NextFarm ==
    \/ AddTweet
    \/ LoadData
    \/ LoadBotScores
    \/ FilterOriginalTweets
    \/ \E th \in ThresholdChoices : IdentifyTrollFarms(th[1], th[2])
    \/ GetTrollFarmUsernames

SpecFarm == InitFarm /\ [][NextFarm]_vars

(***************************************************************************)
(* main.  The data files hold a cohort: n accounts that each post the same *)
(* original text once, the first k of them with a profile that scores      *)
(* "Definite Bot" and the others with a quiet one; m of them also post a   *)
(* second text, and one more account may post besides them.  The output    *)
(* directory may hold score files of an earlier run.  The `user` cell of a *)
(* tweet stands for everything the extractor reads about its author: it    *)
(* names the feature row the extractor computes for that account.          *)
(***************************************************************************)
InitialScoresPath == "output/user_scores_initial.csv"
FinalScoresPath == "output/user_scores.csv"

\* the path main hands to detector.load_bot_scores
DetectorScoresPath == "output/user_scores_initial.csv"

\* pd.read_csv of a scores file; to_csv and read_csv return the labels, the
\* usernames and the totals of a score table as they were written
ReadFile(path) ==
    IF path = InitialScoresPath THEN score_file ELSE final_file

MainTweet(username, text, cell, user) ==
    [username |-> username, text |-> text, retweetedTweet |-> cell, user |-> user]

\* the feature row computed for an account
ProfileRow(user) ==
    CASE user = "loud" -> LoudRow
      [] user = "quiet" -> QuietRow
      [] user = "border" -> BorderRow
      [] user = "blue" -> [LoudRow EXCEPT !.has_blue = TRUE]

\* all usernames of the data files, ascending
UsernameOrder == <<"abe">> \o CohortNames \o <<"zed">>

\* DataLoader.aggregate_by_user: one record per username in ascending order,
\* the profile of its first row and its tweets as lists
aggregate_by_user(tweets) ==
    LET rows(u) == SelectRows(tweets, LAMBDA row : row.username = u)
        present == SelectSeq(UsernameOrder, LAMBDA u : rows(u) # <<>>)
    IN  [j \in 1..Len(present) |->
            [username |-> present[j],
             user |-> rows(present[j])[1].user,
             text |-> [i \in 1..Len(rows(present[j])) |-> rows(present[j])[i].text],
             retweetedTweet |-> [i \in 1..Len(rows(present[j])) |->
                                    rows(present[j])[i].retweetedTweet]]]

\* FeatureExtractor.extract_all_features: one feature row per user record
extract_all_features(users) ==
    [j \in 1..Len(users) |->
        WithUser(ProfileRow(users[j].user), users[j].username, users[j].username)]

CohortUser(i, k) == IF i <= k THEN "loud" ELSE "quiet"

\* the rows of one more account: none, the cohort's text in another spelling,
\* a post that is only a URL, the cohort's text by a paid-verified account that
\* sorts first, the cohort's text under each retweet indicator
RetweetCells ==
    {"bool:False", "int:0", "str:False", "str:", "str:nan", "str:[]",
     "bool:True", "int:1", "str:True", "str:{'id': 1}"}

ExtraRows ==
    {<<>>,
     <<MainTweet("zed", <<"S", " ">>, "null", "border")>>,
     <<MainTweet("zed", <<"H", "T", "T", "P", "s">>, "null", "blue")>>,
     <<MainTweet("abe", <<"S", " ">>, "null", "blue")>>}
    \cup {<<MainTweet("zed", <<"s">>, cell, "border")>> : cell \in RetweetCells}

Corpus(n, k, m, extra) ==
    [i \in 1..n |-> MainTweet(CohortNames[i], <<"s">>, "null", CohortUser(i, k))]
    \o [i \in 1..m |-> MainTweet(CohortNames[i], <<"h", "t">>, "null", CohortUser(i, k))]
    \o extra

\* data files whose only row has no username: tweets, but no account
NamelessCorpus == <<MainTweet(NaN, <<"s">>, "null", "quiet")>>

\* a score file left by an earlier run
StaleScores == CohortScores(MaxCohort, MaxCohort)

Init ==
    /\ \/ \E n \in 0..MaxCohort : \E k \in 0..n : \E m \in {0, n - 1, n} \cap 0..n :
          \E extra \in ExtraRows :
               data_files = Corpus(n, k, m, extra)
       \/ data_files = NamelessCorpus
    /\ score_file \in {None, Some(StaleScores)}
    /\ final_file \in {None, Some(StaleScores)}
    /\ flagged_file = None
    /\ outputs = {}
    /\ pc = "load"
    /\ loader_raw_tweets = None /\ user_data = None /\ initial_scores = None
    /\ edits = 0
    /\ ScorerIdle /\ ClassifyIdle /\ TextIdle /\ DetectorIdle
    /\ ExtractIdle

\* check_environment and loader.load_csv_files: main exits when there is no
\* data file or no row
MainLoadCsvFiles ==
    /\ pc = "load"
    /\ IF data_files = <<>>
       THEN /\ pc' = "exit"
            /\ UNCHANGED loader_raw_tweets
       ELSE /\ pc' = "aggregate"
            /\ loader_raw_tweets' = Some(data_files)
    /\ UNCHANGED <<user_data, initial_scores, edits, diskVars, scorerVars,
                   classifyVars, textVars, detectorVars, callVars>>
    /\ UNCHANGED extractVars

\* loader.aggregate_by_user and loader.save_user_data
MainAggregateByUser ==
    /\ pc = "aggregate"
    /\ user_data' = Some(aggregate_by_user(The(loader_raw_tweets)))
    /\ outputs' = outputs \cup {"output/user_aggregated_data.csv"}
    /\ pc' = "extract"
    /\ UNCHANGED <<loader_raw_tweets, initial_scores, edits, data_files,
                   score_file, final_file, flagged_file, scorerVars, classifyVars, textVars,
                   detectorVars, callVars>>
    /\ UNCHANGED extractVars

\* extractor.extract_all_features and extractor.save_features
MainExtractFeatures ==
    /\ pc = "extract"
    /\ features' = extract_all_features(The(user_data))
    /\ outputs' = outputs \cup {"output/user_features.csv"}
    /\ pc' = "initial_scoring"
    /\ UNCHANGED <<loader_raw_tweets, user_data, initial_scores, edits,
                   data_files, score_file, final_file, flagged_file,
                   troll_farm_usernames,
                   scores, classifyVars, textVars, detectorVars, callVars>>
    /\ UNCHANGED extractVars

\* BotScorer(features).calculate_all_scores(is_initial=True) and save_scores;
\* a feature table without a row has no username column, the scorer raises
\* KeyError and main exits
MainInitialScoring ==
    /\ pc = "initial_scoring"
    /\ IF features = <<>>
       THEN /\ pc' = "exit"
            /\ UNCHANGED <<features, initial_scores, score_file, outputs>>
       ELSE /\ initial_scores' = Some(calculate_all_scores(features, {}))
            /\ features' = CallerFeatures(features, The(initial_scores'))
            /\ score_file' = initial_scores'
            /\ outputs' = outputs \cup {InitialScoresPath}
            /\ pc' = "load_data"
    /\ UNCHANGED <<loader_raw_tweets, user_data, edits, data_files, final_file,
                   flagged_file,
                   troll_farm_usernames, scores, classifyVars, textVars, detectorVars, callVars>>
    /\ UNCHANGED extractVars

\* detector.load_data
MainLoadData ==
    /\ pc = "load_data"
    /\ raw_tweets' = Some(data_files)
    /\ last_call' = Call("load_data", FALSE)
    /\ pc' = "load_bot_scores"
    /\ UNCHANGED <<bot_scores, troll_farms, troll_farm_members, identify_args,
                   usernames_out, loader_raw_tweets, user_data, initial_scores,
                   edits, diskVars, scorerVars, classifyVars, textVars>>
    /\ UNCHANGED extractVars

\* detector.load_bot_scores("output/user_scores_initial.csv"); a missing file
\* raises and main exits
MainLoadBotScores ==
    /\ pc = "load_bot_scores"
    /\ IF ReadFile(DetectorScoresPath) = None
       THEN /\ pc' = "exit"
            /\ last_call' = Call("load_bot_scores", TRUE)
            /\ UNCHANGED bot_scores
       ELSE /\ pc' = "filter"
            /\ last_call' = Call("load_bot_scores", FALSE)
            /\ bot_scores' = ReadFile(DetectorScoresPath)
    /\ UNCHANGED <<raw_tweets, troll_farms, troll_farm_members, identify_args,
                   usernames_out, loader_raw_tweets, user_data, initial_scores,
                   edits, diskVars, scorerVars, classifyVars, textVars>>
    /\ UNCHANGED extractVars

\* detector.filter_original_tweets
MainFilterOriginalTweets ==
    /\ pc = "filter"
    /\ raw_tweets' = Some(filter_original_tweets(The(raw_tweets)))
    /\ last_call' = Call("filter_original_tweets", FALSE)
    /\ pc' = "identify"
    /\ UNCHANGED <<bot_scores, troll_farms, troll_farm_members, identify_args,
                   usernames_out, loader_raw_tweets, user_data, initial_scores,
                   edits, diskVars, scorerVars, classifyVars, textVars>>
    /\ UNCHANGED extractVars

\* detector.identify_troll_farms(min_accounts=10, min_bot_percentage=50) and
\* detector.save_results, which writes only a non-empty member table
MainIdentifyTrollFarms ==
    /\ pc = "identify"
    /\ LET members == identify_troll_farms(The(raw_tweets), The(bot_scores),
                                           DefaultMinAccounts,
                                           DefaultMinBotPercentage)
       IN  /\ identify_args' = Some([min_accounts |-> DefaultMinAccounts,
                                     min_bot_percentage |-> DefaultMinBotPercentage,
                                     tweets |-> The(raw_tweets),
                                     score_table |-> The(bot_scores)])
           /\ raw_tweets' = Some(NormalizedTweets(The(raw_tweets)))
           /\ troll_farm_members' = Some(members)
           /\ troll_farms' = IF members = <<>> THEN Some(<<>>) ELSE troll_farms
           /\ outputs' = IF members = <<>> THEN outputs
                         ELSE outputs \cup {"output/troll_farm_members.csv"}
    /\ last_call' = Call("identify_troll_farms", FALSE)
    /\ pc' = "get_usernames"
    /\ UNCHANGED <<bot_scores, usernames_out, loader_raw_tweets, user_data,
                   initial_scores, edits, data_files, score_file, final_file,
                   flagged_file,
                   scorerVars, classifyVars, textVars>>
    /\ UNCHANGED extractVars

\* troll_farm_usernames = detector.get_troll_farm_usernames()
MainGetTrollFarmUsernames ==
    /\ pc = "get_usernames"
    /\ usernames_out' = Some(get_troll_farm_usernames(troll_farm_members))
    /\ last_call' = Call("get_troll_farm_usernames", FALSE)
    /\ pc' = "final_scoring"
    /\ UNCHANGED <<detectorVars, identify_args, loader_raw_tweets, user_data,
                   initial_scores, edits, diskVars, scorerVars, classifyVars,
                   textVars>>
    /\ UNCHANGED extractVars

\* BotScorer(features, troll_farm_members=troll_farm_usernames),
\* calculate_all_scores(is_initial=False), save_scores and
\* save_flagged_accounts, which writes only a non-empty table
MainFinalScoring ==
    /\ pc = "final_scoring"
    /\ troll_farm_usernames' = The(usernames_out)
    /\ scores' = Some(calculate_all_scores(features, The(usernames_out)))
    /\ final_file' = scores'
    /\ flagged_file' = save_flagged_accounts(The(scores'), features, flagged_file)
    /\ outputs' = IF get_flagged_accounts(The(scores')) # <<>>
                  THEN outputs \cup {"output/user_scores.csv", "output/flagged_bots.csv"}
                  ELSE outputs \cup {"output/user_scores.csv"}
    /\ pc' = "report"
    /\ features' = CallerFeatures(features, The(scores'))
    /\ UNCHANGED <<loader_raw_tweets, user_data, initial_scores,
                   edits, data_files, score_file, classifyVars, textVars,
                   detectorVars, callVars>>
    /\ UNCHANGED extractVars

\* the charts and the two summary reports
MainReport ==
    /\ pc = "report"
    /\ outputs' = outputs \cup {"output/charts"}
    /\ pc' = "done"
    /\ UNCHANGED <<loader_raw_tweets, user_data, initial_scores, edits,
                   data_files, score_file, final_file, flagged_file, scorerVars,
                   classifyVars,
                   textVars, detectorVars, callVars>>
    /\ UNCHANGED extractVars

Next ==
    \/ MainLoadCsvFiles
    \/ MainAggregateByUser
    \/ MainExtractFeatures
    \/ MainInitialScoring
    \/ MainLoadData
    \/ MainLoadBotScores
    \/ MainFilterOriginalTweets
    \/ MainIdentifyTrollFarms
    \/ MainGetTrollFarmUsernames
    \/ MainFinalScoring
    \/ MainReport

Spec == Init /\ [][Next]_vars

(***************************************************************************)
(* FeatureExtractor.  An account record holds the cells the features read: *)
(* the profile cells of the account and one list per tweet column.         *)
(* A day is the proleptic ordinal of its date; a date carries its year and *)
(* month.  A cell that is not a date is None, NaN or a text that does not  *)
(* parse.                                                                  *)
(***************************************************************************)
Date(year, month, ordinal) ==
    [kind |-> "date", year |-> year, month |-> month, ordinal |-> ordinal]

NotADate(kind) == [kind |-> kind, year |-> 0, month |-> 0, ordinal |-> 0]

\* pd.notna of an epoch cell
NotNa(cell) == cell.kind = "date"

\* round(numerator / denominator) to the nearest whole number
RoundDiv(numerator, denominator) ==
    (2 * numerator + denominator) \div (2 * denominator)

Max(a, b) == IF a >= b THEN a ELSE b

\* [e for e in epochs if pd.notna(e)]
Timestamps(epochs) == SelectSeq(epochs, NotNa)

MinOrdinal(cells) ==
    CHOOSE d \in {cells[i].ordinal : i \in 1..Len(cells)} :
        \A i \in 1..Len(cells) : d <= cells[i].ordinal

MaxOrdinal(cells) ==
    CHOOSE d \in {cells[i].ordinal : i \in 1..Len(cells)} :
        \A i \in 1..Len(cells) : d >= cells[i].ordinal

\* the cell whose ordinal is smallest: the first tweet
FirstTweet(cells) ==
    CHOOSE c \in {cells[i] : i \in 1..Len(cells)} : c.ordinal = MinOrdinal(cells)

\* FeatureExtractor._calc_posting_frequency, hundredths
calc_posting_frequency(user_row) ==
    LET epochs == user_row.epoch
        timestamps == Timestamps(epochs)
    IN  IF epochs = <<>> THEN 0
        ELSE IF Len(timestamps) < 2 THEN 100 * Len(timestamps)
        ELSE RoundDiv(100 * Len(timestamps),
                      Max(MaxOrdinal(timestamps) - MinOrdinal(timestamps), 1))

\* the keys _calc_account_age returns when it gives up; it leaves
\* account_created_year and created_same_month_as_dataset out
NullAge ==
    [account_created_date |-> None,
     account_age_days |-> None,
     first_tweet_date |-> None,
     account_created_year |-> 0,
     created_same_month_as_dataset |-> "absent"]

\* min([e for e in epochs if pd.notna(e)]) of a list without a timestamp
\* raises ValueError, before the try block
calc_account_age_raises(user_row) ==
    user_row.epoch # <<>> /\ Timestamps(user_row.epoch) = <<>>

\* FeatureExtractor._calc_account_age, when it does not raise
calc_account_age(user_row) ==
    LET created == user_row.created
        epochs == user_row.epoch
    IN  IF created.kind \in {"none", "nan"} \/ epochs = <<>> THEN NullAge
        ELSE IF created.kind # "date" THEN NullAge
        ELSE LET first_tweet_date == FirstTweet(Timestamps(epochs))
             IN  [account_created_date |-> Some(created.ordinal),
                  account_age_days |-> Some(first_tweet_date.ordinal - created.ordinal),
                  first_tweet_date |-> Some(first_tweet_date.ordinal),
                  account_created_year |-> created.year,
                  created_same_month_as_dataset |->
                      IF created.year = first_tweet_date.year
                            /\ created.month = first_tweet_date.month
                      THEN "True" ELSE "False"]

\* FeatureExtractor._calc_account_activity, hundredths; now is the day
\* datetime.now(pytz.UTC) falls on
calc_account_activity(user_row, now) ==
    LET created == user_row.created
        statuses == user_row.statusesCount
    IN  IF created.kind \in {"none", "nan"} \/ statuses = 0 THEN 0
        ELSE IF created.kind # "date" THEN 0
        ELSE RoundDiv(100 * statuses, Max(now - created.ordinal, 1))

default_patterns == {"default_profile", "default_avatar", "egg", "placeholder"}

\* str.lower on one segment of a URL
LowerSegment(segment) ==
    IF segment = "Default_Profile" THEN "default_profile" ELSE segment

\* profile_url.lower() of a cell that is None raises AttributeError
calc_default_profile_raises(user_row) == user_row.profileImageUrl = None

\* FeatureExtractor._calc_default_profile, when it does not raise
calc_default_profile(user_row) ==
    LET profile_url == The(user_row.profileImageUrl)
    IN  \E i \in 1..Len(profile_url) : LowerSegment(profile_url[i]) \in default_patterns

FollowerRatioZeroOfNone(user_row) ==
    IF user_row.followersCount = 0 THEN 0
    ELSE IF user_row.friendsCount = 0 THEN 999000
    ELSE RoundDiv(1000 * user_row.followersCount, user_row.friendsCount)

\* FeatureExtractor._calc_follower_ratio: round(ratio, 3), thousandths
calc_follower_ratio(user_row) ==
    LET followers == user_row.followersCount
        following == user_row.friendsCount
    IN  IF following = 0 THEN 999000
        ELSE RoundDiv(1000 * followers, following)

\* FeatureExtractor._calc_favorites_ratio: round(ratio, 3), thousandths
calc_favorites_ratio(user_row) ==
    LET favorites == user_row.favouritesCount
        statuses == user_row.statusesCount
    IN  IF statuses = 0 THEN 0
        ELSE RoundDiv(1000 * favorites, statuses)

\* a count cell that is NaN (counts are never negative)
NaNCount == NaNScore

\* x if pd.notna(x) else 0, for a count cell that is NaN or a number
CountOrZero(cell) == IF cell = NaNCount THEN 0 ELSE cell

RECURSIVE Sum(_)
Sum(numbers) == IF numbers = <<>> THEN 0 ELSE Head(numbers) + Sum(Tail(numbers))

\* FeatureExtractor._calc_engagement_rate, hundredths
calc_engagement_rate(user_row) ==
    LET replies == user_row.replyCount
        retweets == user_row.retweetCount
        likes == user_row.likeCount
        total_engagement ==
            [i \in 1..Min(Len(replies), Min(Len(retweets), Len(likes))) |->
                CountOrZero(replies[i]) + CountOrZero(retweets[i])
                + CountOrZero(likes[i])]
    IN  IF total_engagement = <<>> THEN 0
        ELSE RoundDiv(100 * Sum(total_engagement), Len(total_engagement))

\* the number of entries of a list that satisfy a test
Count(list, Test(_)) == Cardinality({i \in 1..Len(list) : Test(list[i])})

\* FeatureExtractor._calc_reply_ratio, hundredths of a percent
calc_reply_ratio(user_row) ==
    LET reply_ids == user_row.in_reply_to_status_id_str
    IN  IF reply_ids = <<>> THEN 0
        ELSE RoundDiv(10000 * Count(reply_ids, LAMBDA r : r # NaN), Len(reply_ids))

\* A text cell is NaText or a sequence of lower-case words of two or more
\* letters; two texts of the model are equal or share no word, so the cosine
\* of their TF-IDF vectors is 1 or 0.
cosine_similarity(a, b) == IF a = b THEN 1 ELSE 0

First(list, n) == SubSeq(list, 1, Min(n, Len(list)))

\* FeatureExtractor._calc_text_similarity, hundredths of a percent
calc_text_similarity(user_row) ==
    LET all == user_row.text
        texts == SelectSeq(all, LAMBDA t : t # NaText /\ t # <<>>)
        sample_texts == First(texts, 50)
        n == Len(sample_texts)
        total == Sum([i \in 1..n |->
                        Sum([j \in 1..n |->
                                cosine_similarity(sample_texts[i], sample_texts[j])])])
    IN  IF Len(all) < 2 THEN 0
        ELSE IF Len(texts) < 2 THEN 0
        ELSE RoundDiv(10000 * (total - n), n * (n - 1))

\* str.isalpha and str.isdigit of one character of a username
Letters == {"a", "b", "c", "d", "o", "t", "x", "y"}
Digits == {"0", "1", "2", "3", "4", "9"}
isalpha(c) == c \in Letters
isdigit(c) == c \in Digits

EndsWithTenDigits(username) ==
    /\ Len(username) >= 10
    /\ \A i \in (Len(username) - 9)..Len(username) : isdigit(username[i])

\* re.search(r'\d{6,}$', username)
EndsWithDigits(username) ==
    /\ Len(username) >= 6
    /\ \A i \in (Len(username) - 5)..Len(username) : isdigit(username[i])

\* the positions where username[i].isalpha() != username[i + 1].isalpha()
Transitions(username) ==
    Cardinality({i \in 1..(Len(username) - 1) :
        isalpha(username[i]) # isalpha(username[i + 1])})

\* FeatureExtractor._calc_username_pattern
calc_username_pattern(user_row) ==
    LET username == user_row.username
        ends_with_digits == EndsWithDigits(username)
        random_mix == /\ Transitions(username) >= 3
                      /\ \E i \in 1..Len(username) : isdigit(username[i])
    IN  ends_with_digits \/ random_mix

political_keywords ==
    {"trump", "biden", "harris", "election", "vote", "ballot", "democrat",
     "republican", "liberal", "conservative", "maga", "gop", "dnc", "rnc"}

\* keyword in str(text).lower(): a word of the text is the keyword (the words
\* of the model contain no keyword as a proper part; str(nan) is 'nan')
Mentions(text, keyword) ==
    text # NaText /\ \E i \in 1..Len(text) : text[i] = keyword

\* FeatureExtractor._calc_topic_diversity, hundredths of a percent
calc_topic_diversity(user_row) ==
    LET texts == user_row.text
        keyword_counts == [k \in political_keywords |->
                              Count(texts, LAMBDA t : Mentions(t, k))]
        dominant_count ==
            CHOOSE c \in {keyword_counts[k] : k \in political_keywords} :
                \A k \in political_keywords : keyword_counts[k] <= c
    IN  IF Len(texts) < 5 THEN 0
        ELSE IF dominant_count = 0 THEN 0
        ELSE RoundDiv(10000 * dominant_count, Len(texts))

\* A hashtags cell is NaN, the string "[]", or another string: kind is
\* "nan", "[]" or "str", with the number of commas and the length of the
\* string.
HashtagCell(kind, commas, length) ==
    [kind |-> kind, commas |-> commas, length |-> length]

HashtagCount(cell) ==
    IF cell.kind \in {"nan", "[]"} THEN 0 ELSE cell.commas + 1

\* FeatureExtractor._calc_hashtag_usage: the average in hundredths, and
\* has_long_hashtag
calc_hashtag_usage(user_row) ==
    LET hashtags == user_row.hashtags
    IN  IF hashtags = <<>>
        THEN [avg_hashtags_per_tweet |-> 0, has_long_hashtag |-> FALSE]
        ELSE [avg_hashtags_per_tweet |->
                 RoundDiv(100 * Sum([i \in 1..Len(hashtags) |-> HashtagCount(hashtags[i])]),
                          Len(hashtags)),
              has_long_hashtag |->
                 \E i \in 1..Len(hashtags) :
                    hashtags[i].kind = "str" /\ hashtags[i].length > 30]

\* rt == True or rt == 'True'; the number 1 equals True
IsCountedRetweet(cell) == cell \in {"bool:True", "str:True", "int:1"}

\* FeatureExtractor._calc_retweet_ratio, hundredths of a percent
calc_retweet_ratio(user_row) ==
    LET retweets == user_row.retweetedTweet
    IN  IF retweets = <<>> THEN 0
        ELSE RoundDiv(10000 * Count(retweets, IsCountedRetweet), Len(retweets))

\* pd.isna(cell) or cell == '' or cell == 'PW', for a description or location
IsBlank(cell) == cell \in {NaN, "", "PW"}

\* FeatureExtractor._calc_profile_completeness
calc_profile_completeness(user_row) ==
    [has_empty_description |-> IsBlank(user_row.rawDescription),
     has_no_location |-> IsBlank(user_row.location)]

\* A mentionedUsers cell is NaN, the string "[]", or another string: kind
\* is "nan", "[]" or "str", with the number of times the string contains
\* 'id_str'.
MentionCell(kind, id_strs) == [kind |-> kind, id_strs |-> id_strs]

MentionCount(cell) ==
    IF cell.kind \in {"nan", "[]"} THEN 0 ELSE cell.id_strs

\* FeatureExtractor._calc_mention_spam, hundredths
calc_mention_spam(user_row) ==
    LET mentions == user_row.mentionedUsers
    IN  IF mentions = <<>> THEN 0
        ELSE RoundDiv(100 * Sum([i \in 1..Len(mentions) |-> MentionCount(mentions[i])]),
                      Len(mentions))

\* an exception leaves _extract_user_features
extract_user_features_raises(user_row) ==
    calc_account_age_raises(user_row) \/ calc_default_profile_raises(user_row)

\* FeatureExtractor._extract_user_features, when it does not raise
extract_user_features(user_row, now) ==
    calc_account_age(user_row)
    @@ calc_hashtag_usage(user_row)
    @@ calc_profile_completeness(user_row)
    @@ [username |-> user_row.username,
        user_id |-> user_row.user_id,
        follower_following_ratio |-> calc_follower_ratio(user_row),
        avg_engagement_per_tweet |-> calc_engagement_rate(user_row),
        favorites_tweets_ratio |-> calc_favorites_ratio(user_row),
        lifetime_tweets_per_day |-> calc_account_activity(user_row, now),
        posting_freq_tweets_per_day |-> calc_posting_frequency(user_row),
        reply_ratio_pct |-> calc_reply_ratio(user_row),
        avg_text_similarity_pct |-> calc_text_similarity(user_row),
        bot_username_pattern |-> calc_username_pattern(user_row),
        has_default_profile_image |-> calc_default_profile(user_row),
        topic_concentration_pct |-> calc_topic_diversity(user_row),
        retweet_ratio_pct |-> calc_retweet_ratio(user_row),
        avg_mentions_per_tweet |-> calc_mention_spam(user_row),
        is_verified |-> user_row.verified,
        has_blue |-> user_row.blue]

\* pd.DataFrame(all_features), as BotScorer reads it with feature_row.get: a
\* row without created_same_month_as_dataset has NaN in that column when
\* another row has the key, and the default False where no row has it; its
\* account_created_year is 0 either way (the default, or a NaN that equals
\* no year)
DataFrame(all_features) ==
    [i \in 1..Len(all_features) |->
        [all_features[i] EXCEPT !.created_same_month_as_dataset =
            IF @ # "absent" THEN @
            ELSE IF \E j \in 1..Len(all_features) :
                        all_features[j].created_same_month_as_dataset # "absent"
                 THEN NaN
                 ELSE "False"]]

\* FeatureExtractor.extract_all_features raises
extract_all_features_raises(users) ==
    \E i \in 1..Len(users) : extract_user_features_raises(users[i])

\* the table FeatureExtractor.extract_all_features returns on day now
extract_all_features_on(users, now) ==
    DataFrame([i \in 1..Len(users) |-> extract_user_features(users[i], now)])

(***************************************************************************)
(* The extractor on its own: a table of one or two account records is      *)
(* extracted, possibly a second time on a later day, and the table the     *)
(* extractor holds is scored.                                              *)
(***************************************************************************)
MaxAccounts == 2

\* 2023-12-15, 2024-01-10 and 2024-10-03
CreatedCells ==
    {NotADate("none"), NotADate("nan"), NotADate("text"),
     Date(2023, 12, 738869), Date(2024, 1, 738895), Date(2024, 10, 739162)}

\* tweets of 2024-10-20 and 2024-11-02, and tweets without a timestamp
EpochLists ==
    {<<>>,
     <<NotADate("nan")>>,
     <<Date(2024, 10, 739179)>>,
     <<NotADate("nan"), Date(2024, 11, 739192)>>,
     <<Date(2024, 11, 739192), Date(2024, 10, 739179)>>}

StatusCounts == {0, 5000}

UrlCells ==
    {None, Some(<<>>), Some(<<"pbs", "photo">>), Some(<<"abs", "Default_Profile">>)}

\* 2024-11-06 and 2025-11-06
FirstDay == 739196
LaterDay == 739561

\* a column of n equal cells
Column(n, cell) == [i \in 1..n |-> cell]

\* the record aggregate_by_user builds for an account whose profile has a
\* description and a location and whose tweets, one per epoch, hold no text
\* and NaN in every other column
Account(username, created, epochs, statuses, url) ==
    [username |-> username, user_id |-> username,
     created |-> created, epoch |-> epochs, statusesCount |-> statuses,
     profileImageUrl |-> url,
     followersCount |-> 0, friendsCount |-> 0, favouritesCount |-> 0,
     rawDescription |-> "bio", location |-> "town",
     verified |-> FALSE, blue |-> FALSE,
     text |-> Column(Len(epochs), NaText),
     replyCount |-> Column(Len(epochs), NaNCount),
     retweetCount |-> Column(Len(epochs), NaNCount),
     likeCount |-> Column(Len(epochs), NaNCount),
     in_reply_to_status_id_str |-> Column(Len(epochs), NaN),
     hashtags |-> Column(Len(epochs), HashtagCell("nan", 0, 0)),
     mentionedUsers |-> Column(Len(epochs), MentionCell("nan", 0)),
     retweetedTweet |-> Column(Len(epochs), "null")]

AcctOne == <<"a", "c", "c", "t", "_", "0", "1">>
AcctTwo == <<"a", "c", "c", "t", "_", "0", "2">>

AccountChoices ==
    {Account(AcctOne, c, e, n, u) :
        c \in CreatedCells, e \in EpochLists, n \in StatusCounts, u \in UrlCells}

\* a second record: one with a creation date and a timestamped tweet, one
\* without a creation date
Companions ==
    {Account(AcctTwo, Date(2024, 10, 739162),
             <<Date(2024, 10, 739179)>>, 5000, Some(<<"pbs", "photo">>)),
     Account(AcctTwo, NotADate("none"),
             <<Date(2024, 10, 739179)>>, 5000, Some(<<"pbs", "photo">>))}

InitExtract ==
    /\ \E a \in AccountChoices :
          \/ accounts = <<a>>
          \/ MaxAccounts >= 2 /\ \E b \in Companions :
                accounts \in {<<a, b>>, <<b, a>>}
    /\ clock = FirstDay
    /\ extracted = None /\ previous_features = None /\ extract_call = NoCall
    /\ edits = 0
    /\ ScorerIdle /\ ClassifyIdle /\ TextIdle /\ DiskIdle /\ DetectorIdle
    /\ MainIdle

\* time passes
Tick ==
    /\ clock = FirstDay
    /\ clock' = LaterDay
    /\ UNCHANGED <<accounts, extracted, previous_features, extract_call, edits,
                   scorerVars, classifyVars, textVars, diskVars, detectorVars,
                   callVars, mainVars>>

\* FeatureExtractor.extract_all_features: an exception of one account leaves
\* the method, and features keeps what it held
ExtractAllFeatures ==
    /\ previous_features = None /\ scores = None
    /\ IF extract_all_features_raises(accounts)
       THEN /\ extract_call' = Call("extract_all_features", TRUE)
            /\ UNCHANGED <<extracted, previous_features>>
       ELSE /\ extract_call' = Call("extract_all_features", FALSE)
            /\ extracted' = Some(extract_all_features_on(accounts, clock))
            /\ previous_features' = extracted
    /\ UNCHANGED <<accounts, clock, edits, scorerVars, classifyVars, textVars,
                   diskVars, detectorVars, callVars, mainVars>>

\* BotScorer(extractor.features).calculate_all_scores()
ScoreExtracted ==
    /\ extracted # None /\ scores = None
    /\ features' = The(extracted)
    /\ scores' = Some(calculate_all_scores(The(extracted), {}))
    /\ UNCHANGED <<troll_farm_usernames, extractVars, edits, classifyVars,
                   textVars, diskVars, detectorVars, callVars, mainVars>>

NextExtract == Tick \/ ExtractAllFeatures \/ ScoreExtracted

SpecExtract == InitExtract /\ [][NextExtract]_vars

(***************************************************************************)
(* The extractor and the scorer on one account: the account "bot_99999999" *)
(* with 1 follower, 10000 followed accounts, 50 posts of one text, created *)
(* in the month of its first post, a default avatar, and nothing else in   *)
(* its records; up to MaxEdits of its cells are then set to other values.  *)
(***************************************************************************)
BotName == <<"b", "o", "t", "_", "9", "9", "9", "9", "9", "9", "9", "9">>

\* 50 posts on 2024-10-20, or 25 on that day and 25 on 2024-11-02
PostDays ==
    {Column(50, Date(2024, 10, 739179)),
     [i \in 1..50 |-> IF i <= 25 THEN Date(2024, 10, 739179)
                      ELSE Date(2024, 11, 739192)]}

PostTexts == {<<"buy", "now">>, <<"vote", "now">>}

ScenarioAccount(text, epochs) ==
    [Account(BotName, Date(2024, 10, 739162), epochs, 0,
             Some(<<"abs", "Default_Profile">>))
        EXCEPT !.followersCount = 1, !.friendsCount = 10000,
               !.rawDescription = "", !.location = "",
               !.text = Column(50, text)]

\* the first k cells of a column of 50 hold one cell and the rest another
Mixed(k, first, rest) == [i \in 1..50 |-> IF i <= k THEN first ELSE rest]

AccountFields ==
    {"followersCount", "friendsCount", "favouritesCount", "statusesCount",
     "username", "retweetedTweet", "text", "verified", "blue",
     "rawDescription", "replyCount", "hashtags", "mentionedUsers",
     "in_reply_to_status_id_str"}

\* the values a cell of the account record is set to
CellValues(f) ==
    CASE f = "followersCount" -> {0, 304, 5000}
      [] f = "friendsCount" -> {0, 1000}
      [] f = "favouritesCount" -> {152}
      [] f = "statusesCount" -> {500}
      [] f = "username" ->
            {<<"a", "b", "c">>,
             <<"a", "1", "b", "2">>,
             <<"a", "1", "b">>,
             <<"a", "_", "b", "_", "c", "1">>,
             <<"a", "_", "b", "_", "c", "d">>,
             <<"1", "_", "2", "_", "3", "_", "4">>,
             <<"b", "o", "t", "1", "2", "3", "4", "9">>,
             <<"x", "1", "2", "3", "4", "9", "0">>,
             <<"1", "2", "3", "4", "9", "0">>}
      [] f = "retweetedTweet" ->
            {Column(50, c) : c \in {"bool:True", "bool:False", "str:{'id': 1}"}}
            \cup {Mixed(30, "str:True", "null"), Mixed(41, "int:1", "str:[]"),
                  Mixed(30, "str:{'id': 1}", "str:nan")}
      [] f = "text" ->
            {Column(50, NaText), Mixed(25, <<"buy", "now">>, <<"sell", "soon">>),
             Mixed(40, <<"vote", "now">>, <<"sell", "soon">>)}
      [] f \in {"verified", "blue"} -> {TRUE}
      [] f = "rawDescription" -> {NaN, "PW", "bio"}
      [] f = "replyCount" -> {Column(50, 3), Mixed(25, 1, NaNCount)}
      [] f = "hashtags" ->
            {Column(50, HashtagCell("[]", 0, 2)),
             Column(50, HashtagCell("str", 3, 38)),
             Mixed(10, HashtagCell("str", 0, 31), HashtagCell("nan", 0, 0))}
      [] f = "mentionedUsers" ->
            {Column(50, MentionCell("str", 4)), Column(50, MentionCell("[]", 0))}
      [] f = "in_reply_to_status_id_str" ->
            {Column(50, "17"), Mixed(33, "17", NaN)}

InitProfile ==
    /\ \E text \in PostTexts : \E epochs \in PostDays :
          accounts = <<ScenarioAccount(text, epochs)>>
    /\ clock = FirstDay
    /\ extracted = None /\ previous_features = None /\ extract_call = NoCall
    /\ edits = 0
    /\ ScorerIdle /\ ClassifyIdle /\ TextIdle /\ DiskIdle /\ DetectorIdle
    /\ MainIdle

\* one cell of the account record is given another value
EditAccount ==
    /\ extract_call = NoCall
    /\ edits < MaxEdits
    /\ \E f \in AccountFields : \E v \in CellValues(f) :
          /\ accounts[1][f] # v
          /\ accounts' = <<[accounts[1] EXCEPT ![f] = v]>>
    /\ edits' = edits + 1
    /\ UNCHANGED <<clock, extracted, previous_features, extract_call,
                   scorerVars, classifyVars, textVars, diskVars, detectorVars,
                   callVars, mainVars>>

NextProfile == EditAccount \/ ExtractAllFeatures \/ ScoreExtracted

SpecProfile == InitProfile /\ [][NextProfile]_vars

(***************************************************************************)
(* Properties of the scorer                                                *)
(***************************************************************************)
ScoreRows == IF scores = None THEN {} ELSE {The(scores)[i] : i \in 1..Len(The(scores))}

ClassRank(c) ==
    CASE c = "Likely Human" -> 0
      [] c = "Suspicious" -> 1
      [] c = "Likely Bot" -> 2
      [] c = "Definite Bot" -> 3

\* C1: after calculate_all_scores every score row has tier1_score + tier2_score
\* + tier3_score = total_score_before_verification, and that total lies in
\* [0, 185], whatever the feature row and the farm-membership set.
C1_TierSumAndRange ==
    \A r \in ScoreRows :
        /\ r.tier1_score + r.tier2_score + r.tier3_score
              = r.total_score_before_verification
        /\ 0 <= r.total_score_before_verification
        /\ r.total_score_before_verification <= Pts(MaxTotalPoints)

\* C1 witness: a scored farm member with every indicator in its top band: all
\* three tiers contribute and the pre-discount total is the highest reached, 184
C1_Witness ==
    \E r \in ScoreRows :
        /\ r.username \in troll_farm_usernames
        /\ r.tier1_score = Pts(135)
        /\ r.tier2_score = Pts(30)
        /\ r.tier3_score = Pts(19)
        /\ r.total_score_before_verification = Pts(184)

\* The bands of the scoring tables, each as the list of its ranges: the
\* points of a value are those of the one range it lies in.
\* below the first edge 15, up to the second 10, up to the third 5
LowBand(v, e1, e2, e3) ==
    CASE v < e1 -> 15
      [] e1 <= v /\ v <= e2 -> 10
      [] e2 < v /\ v <= e3 -> 5
      [] v > e3 -> 0

\* above the first edge 15, from the second 10, from the third 5
HighBand(v, e1, e2, e3) ==
    CASE v > e1 -> 15
      [] e2 <= v /\ v <= e1 -> 10
      [] e3 <= v /\ v < e2 -> 5
      [] v < e3 -> 0

ListedTier1(f, members) ==
    Pts((IF f.username \in members THEN 15 ELSE 0)
        + LowBand(f.follower_following_ratio, 100, 300, 500)
        + LowBand(f.avg_engagement_per_tweet, 50, 200, 500)
        + LowBand(f.favorites_tweets_ratio, 100, 300, 500)
        + HighBand(f.lifetime_tweets_per_day, 10000, 5000, 2500)
        + (CASE f.reply_ratio_pct >= 8000 -> 15
             [] f.reply_ratio_pct \in 6600..7999 -> 10
             [] f.reply_ratio_pct \in 5000..6599 -> 5
             [] f.reply_ratio_pct < 5000 -> 0)
        + HighBand(f.avg_text_similarity_pct, 8000, 6000, 4000)
        + (CASE f.topic_concentration_pct = 10000 -> 15
             [] f.topic_concentration_pct >= 8000
                /\ f.topic_concentration_pct # 10000 -> 10
             [] f.topic_concentration_pct \in 7001..7999 -> 5
             [] f.topic_concentration_pct <= 7000 -> 0))
    + (CASE f.created_same_month_as_dataset = "True" -> Pts(15)
         [] f.created_same_month_as_dataset = "False"
            /\ f.account_created_year = 2024 -> HalfPts(7)
         [] f.created_same_month_as_dataset = "False"
            /\ f.account_created_year # 2024 -> 0)

ListedTier2(f) ==
    Pts((CASE f.posting_freq_tweets_per_day > 5000 -> 10
           [] f.posting_freq_tweets_per_day \in 3000..5000 -> 7
           [] f.posting_freq_tweets_per_day \in 2000..2999 -> 3
           [] f.posting_freq_tweets_per_day < 2000 -> 0)
        + (IF f.bot_username_pattern THEN 10 ELSE 0)
        + (IF f.has_default_profile_image THEN 10 ELSE 0))

Tier3AllMet(f) ==
    /\ f.avg_hashtags_per_tweet > 300
    /\ f.retweet_ratio_pct > 8000
    /\ f.has_empty_description
    /\ f.has_no_location
    /\ f.avg_mentions_per_tweet > 300

\* C20 (as claimed): the tier-3 subtotal reaches its maximum of 20 on the
\* feature row that meets every tier-3 indicator, and with tier 1 at 135 and
\* tier 2 at 30 the total before verification reaches 185.
C20_Tier3ReachesTwenty ==
    scores # None =>
        \A i \in 1..Len(The(scores)) :
            LET r == The(scores)[i] IN
            Tier3AllMet(features[i]) =>
                /\ r.tier3_score = Pts(20)
                /\ (r.tier1_score = Pts(135) /\ r.tier2_score = Pts(30)) =>
                      r.total_score_before_verification = Pts(MaxTotalPoints)

\* C2 (as claimed): flagged_for_review is true exactly when the classification
\* is "Definite Bot", for every total the scorer produces.
C2_FlagIffDefiniteBot ==
    \A r \in ScoreRows :
        r.flagged_for_review <=> (r.classification = "Definite Bot")

\* C4: for every score row, flagged_for_review is true if and only if the
\* post-discount total_score is at least 86.
C4_FlagIffAtLeast86 ==
    \A r \in ScoreRows :
        r.flagged_for_review <=> (r.total_score >= 8 * 86)

\* C4 witness: a scored row whose total is exactly 86 and is flagged, next to
\* the totals strictly between 85 and 86 that are reachable and not flagged.
C4_Witness ==
    \E r \in ScoreRows : r.total_score = 8 * 86 /\ r.flagged_for_review

\* C5: total_score is total_score_before_verification * 0.75 when is_verified
\* or has_blue is true, and total_score_before_verification when both are
\* false (in eighths: 4 * total = 3 * before).
C5_VerificationDiscount ==
    \A r \in ScoreRows :
        IF r.is_verified \/ r.has_blue
        THEN 4 * r.total_score = 3 * r.total_score_before_verification
        ELSE r.total_score = r.total_score_before_verification

\* C5 witness: a scored paid-blue account that is not verified, with a
\* non-zero total that the discount lowers (7.5-point age band included).
C5_Witness ==
    \E r \in ScoreRows :
        /\ r.has_blue /\ ~r.is_verified
        /\ r.total_score_before_verification % 8 = 4
        /\ r.total_score < r.total_score_before_verification

\* C3: the classification depends on the total alone and is the step function
\* total <= 35 Likely Human, <= 60 Suspicious, <= 85 Likely Bot, else Definite
\* Bot; 35, 60 and 85 fall in the lower band; no smaller total has a higher band.
C3_ClassificationBands ==
    class_out # NoClass =>
        /\ (total_in <= 8 * 35) => class_out = "Likely Human"
        /\ (8 * 35 < total_in /\ total_in <= 8 * 60) => class_out = "Suspicious"
        /\ (8 * 60 < total_in /\ total_in <= 8 * 85) => class_out = "Likely Bot"
        /\ (8 * 85 < total_in) => class_out = "Definite Bot"
        /\ \A t \in 0..total_in :
              ClassRank(classify_user(t)) <= ClassRank(class_out)

\* C3 witness: _classify_user has answered for the boundary total 85.0
C3_Witness ==
    total_in = 8 * 85 /\ class_out = "Likely Bot"

(***************************************************************************)
(* Properties of normalize_text                                            *)
(***************************************************************************)
\* "http" followed by at least one more non-whitespace character starts at i
UrlTokenAt(text, i) ==
    /\ i + 4 <= Len(text)
    /\ SubSeq(text, i, i + 3) = <<"h", "t", "t", "p">>
    /\ ~IsSpace(text[i + 4])

HasUrlToken(text) == \E i \in 1..Len(text) : UrlTokenAt(text, i)

IsNormalForm(text) ==
    /\ ~HasUrlToken(text)
    /\ \A i \in 1..Len(text) : ~IsUpperChar(text[i])
    /\ text # <<>> => ~IsSpace(text[1]) /\ ~IsSpace(text[Len(text)])
    /\ \A i \in 1..(Len(text) - 1) : ~(IsSpace(text[i]) /\ IsSpace(text[i + 1]))

\* C10: normalize_text is idempotent, and its result holds no http... or
\* https... token wherever the URL stood and in whatever letter case, is
\* lowercase, has no leading or trailing whitespace and no whitespace run of
\* two or more.
C10_NormalizeIdempotent ==
    /\ text_out # None => IsNormalForm(The(text_out))
    /\ text_again # None => The(text_again) = The(text_out)

\* C10 witness: an upper-case URL in the middle of the text, a tab and a
\* trailing blank: "s HTTPs<tab>s " gives "s s", and normalizing again too.
C10_Witness ==
    /\ text_in = <<"s", " ", "H", "T", "T", "P", "s", "\t", "s">>
    /\ text_out = Some(<<"s", " ", "s">>)
    /\ text_again = text_out

(***************************************************************************)
(* Properties of the detector, stated on the arguments of the              *)
(* identify_troll_farms call: the tweet table and score table it read      *)
(***************************************************************************)
ArgTweets == The(identify_args).tweets
ArgScores == The(identify_args).score_table
ArgMinAccounts == The(identify_args).min_accounts
ArgMinBotPercentage == The(identify_args).min_bot_percentage

MemberRows ==
    IF troll_farm_members = None THEN {}
    ELSE {The(troll_farm_members)[i] : i \in 1..Len(The(troll_farm_members))}

\* the non-empty normalized messages of the table
Messages(tweets) ==
    {normalize_text(tweets[i].text) : i \in 1..Len(tweets)} \ {<<>>}

\* the distinct usernames that posted the message
Posters(tweets, message) ==
    {tweets[i].username : i \in {j \in 1..Len(tweets) :
                                    normalize_text(tweets[j].text) = message}}

\* those of them the score table labels as a bot
BotPosters(tweets, table, message) ==
    {u \in Posters(tweets, message) :
        \E j \in 1..Len(table) :
            /\ table[j].username = u
            /\ table[j].classification \in {"Suspicious", "Likely Bot", "Definite Bot"}}

QualifiesAsFarm(tweets, table, min_accounts, min_bot_percentage, message) ==
    LET size == Cardinality(Posters(tweets, message))
        bots == Cardinality(BotPosters(tweets, table, message))
    IN  size >= min_accounts /\ 100 * bots >= min_bot_percentage * size

QualifyingMessages ==
    {m \in Messages(ArgTweets) :
        QualifiesAsFarm(ArgTweets, ArgScores, ArgMinAccounts,
                        ArgMinBotPercentage, m)}

IsDefaultCohortCall(n, k) ==
    /\ ArgTweets = CohortTweets(n)
    /\ ArgScores = CohortScores(n, k)
    /\ ArgMinAccounts = 10
    /\ ArgMinBotPercentage = 50

\* one farm, of the first n cohort accounts, with 100 * k / n percent bots
IsOneFarmOf(n, k) ==
    /\ Len(The(troll_farm_members)) = n
    /\ {r.username : r \in MemberRows} = {CohortNames[i] : i \in 1..n}
    /\ \A r \in MemberRows :
          /\ r.troll_farm_id = 1
          /\ r.farm_size = n
          /\ r.farm_bot_percentage[1] * n = 100 * k * r.farm_bot_percentage[2]

C9_UsernamesOfAllFarms ==
    usernames_out # None =>
        The(usernames_out) =
            IF identify_args = None THEN {}
            ELSE UNION {Posters(ArgTweets, m) : m \in QualifyingMessages}

\* C9 witness: a username that is a member of two farms is returned, together
\* with a member of only one of them.
C9_Witness ==
    /\ usernames_out # None
    /\ \E r1, r2, r3 \in MemberRows :
          /\ r1.username = r2.username
          /\ r1.troll_farm_id # r2.troll_farm_id
          /\ r3.username # r1.username
          /\ {r1.username, r3.username} \subseteq The(usernames_out)

\* C14: a call of identify_troll_farms with a negative min_accounts is
\* rejected: it stores no member table.
C14_NegativeMinAccountsRejected ==
    (identify_args # None /\ ArgMinAccounts < 0) => troll_farm_members = None

\* the position of the first tweet whose normalized text is the message
FirstPost(tweets, message) ==
    CHOOSE i \in 1..Len(tweets) :
        /\ normalize_text(tweets[i].text) = message
        /\ \A j \in 1..(i - 1) : normalize_text(tweets[j].text) # message

\* C16: the qualifying groups are numbered 1..k without a gap in the order in
\* which their messages first occur in the filtered tweets, and the member
\* table is ordered by that number and, within one farm, by descending
\* total_score, for any number k of farms.
C16_FarmIdsInDiscoveryOrder ==
    identify_args # None =>
        LET table == The(troll_farm_members) IN
        /\ {r.troll_farm_id : r \in MemberRows} = 1..Cardinality(QualifyingMessages)
        /\ \A r1, r2 \in MemberRows :
              (r1.troll_farm_id < r2.troll_farm_id)
                  <=> (FirstPost(ArgTweets, r1.shared_message)
                          < FirstPost(ArgTweets, r2.shared_message))
        /\ \A i, j \in 1..Len(table) :
              i < j =>
                  /\ table[i].troll_farm_id <= table[j].troll_farm_id
                  /\ (table[i].troll_farm_id = table[j].troll_farm_id
                        /\ table[j].total_score # NaNScore)
                       => (table[i].total_score # NaNScore
                             /\ table[i].total_score >= table[j].total_score)

\* the tweets of one account whose normalized text is the message
PostsOf(tweets, message, username) ==
    {i \in 1..Len(tweets) :
        /\ tweets[i].username = username
        /\ normalize_text(tweets[i].text) = message}

\* C17: groups are the classes of equal normalized text.  The member rows of
\* a farm are its distinct posting usernames, one row each; farm_size is
\* their number and message_frequency the number of posts of the account
\* with exactly that normalized text, so an account alone never makes a farm
\* when min_accounts > 1; no farm has the empty message, so a post whose
\* normalized text is empty is in no group.
C17_GroupsByExactText ==
    identify_args # None =>
        LET table == The(troll_farm_members) IN
        /\ \A r \in MemberRows :
              /\ r.shared_message # <<>>
              /\ r.username \in Posters(ArgTweets, r.shared_message)
              /\ r.farm_size = Cardinality(Posters(ArgTweets, r.shared_message))
              /\ r.message_frequency
                    = Cardinality(PostsOf(ArgTweets, r.shared_message, r.username))
              /\ {q.username : q \in {x \in MemberRows :
                                         x.shared_message = r.shared_message}}
                    = Posters(ArgTweets, r.shared_message)
              /\ ArgMinAccounts > 1 =>
                    Cardinality(Posters(ArgTweets, r.shared_message)) >= 2
        /\ \A i, j \in 1..Len(table) :
              (table[i].username = table[j].username
                  /\ table[i].shared_message = table[j].shared_message) => i = j

\* C17 witness: one account posts the same message twice in two spellings and
\* a post that is only a URL; with min_accounts = 1 it is a farm of size 1
\* with message_frequency 2, and the URL post is in no farm.
C17_Witness ==
    /\ identify_args # None
    /\ ArgMinAccounts = 1
    /\ \E i \in 1..Len(ArgTweets) : normalize_text(ArgTweets[i].text) = <<>>
    /\ \E r \in MemberRows :
          /\ r.farm_size = 1
          /\ r.message_frequency = 2
          /\ \E i, j \in PostsOf(ArgTweets, r.shared_message, r.username) :
                ArgTweets[i].text # ArgTweets[j].text

\* the rows of the member table that carry the farm identifier
RowsOfFarm(farm_id) ==
    {i \in 1..Len(The(troll_farm_members)) :
        The(troll_farm_members)[i].troll_farm_id = farm_id}

OneRowPerUsername(table) ==
    \A i, j \in 1..Len(table) : table[i].username = table[j].username => i = j

HasScoreRow(table, username) == \E j \in 1..Len(table) : table[j].username = username

\* C29: when the loaded score table has one row per username, every farm of
\* the member table has a bot percentage in [0, 100], as many member rows as
\* its farm_size, each username in it once, and message_frequency >= 1 in
\* every row; a member without a score row is counted in farm_size and has
\* a row, but is not counted in the bot percentage.
C29_FarmStatistics ==
    (identify_args # None /\ OneRowPerUsername(ArgScores)) =>
        \A r \in MemberRows :
            LET members == RowsOfFarm(r.troll_farm_id)
                names == {The(troll_farm_members)[i].username : i \in members}
                scored == {u \in names : HasScoreRow(ArgScores, u)}
            IN  /\ 0 <= r.farm_bot_percentage[1]
                /\ r.farm_bot_percentage[1] <= 100 * r.farm_bot_percentage[2]
                /\ r.farm_bot_percentage[2] > 0
                /\ r.farm_size = Cardinality(members)
                /\ r.farm_size = Cardinality(names)
                /\ names = Posters(ArgTweets, r.shared_message)
                /\ r.message_frequency >= 1
                /\ r.farm_bot_percentage[2] = r.farm_size
                /\ r.farm_bot_percentage[1]
                      = 100 * Cardinality({u \in scored :
                            \E j \in 1..Len(ArgScores) :
                                /\ ArgScores[j].username = u
                                /\ ArgScores[j].classification \in bot_labels})
                /\ ~HasScoreRow(ArgScores, r.username) =>
                      r.bot_label = NaN /\ r.total_score = NaNScore

\* C29 witness: a farm of two accounts of which one has no score row: size 2,
\* 50 percent bots, and a repeated post counted in message_frequency
C29_Witness ==
    /\ identify_args # None /\ OneRowPerUsername(ArgScores)
    /\ \E r1, r2 \in MemberRows :
          /\ r1.troll_farm_id = r2.troll_farm_id
          /\ ~HasScoreRow(ArgScores, r1.username)
          /\ HasScoreRow(ArgScores, r2.username)
          /\ r1.farm_size = 2
          /\ r1.farm_bot_percentage = <<100, 2>>
          /\ r1.message_frequency = 2

\* a step in which the detector method op was called
Called(op) == last_call' # last_call /\ last_call'.op = op

C30_GuardStep ==
    /\ (Called("filter_original_tweets") /\ raw_tweets = None) =>
          (last_call'.raised /\ UNCHANGED detectorVars)
    /\ (Called("identify_troll_farms") /\ (raw_tweets = None \/ bot_scores = None)) =>
          (last_call'.raised /\ UNCHANGED detectorVars)

\* C30: filter_original_tweets called while no tweets are loaded, and
\* identify_troll_farms called while the tweets or the scores are not loaded,
\* raise and leave raw_tweets, bot_scores, troll_farms and troll_farm_members
\* as they were; get_troll_farm_usernames called before an identification
\* has succeeded returns the empty set.
C30_GuardedPreconditions ==
    /\ [][C30_GuardStep]_vars
    /\ []((usernames_out # None /\ identify_args = None) => The(usernames_out) = {})

\* C30 witness: identify_troll_farms was called with the tweets loaded and
\* the scores not loaded; it raised and stored nothing
C30_Witness ==
    /\ last_call = Call("identify_troll_farms", TRUE)
    /\ raw_tweets # None /\ bot_scores = None
    /\ troll_farms = None /\ troll_farm_members = None

(***************************************************************************)
(* Properties of main                                                      *)
(***************************************************************************)
\* tier 1 without the troll-farm indicator
Tier1WithoutFarm(row) ==
    Tier1Ratio(row) + Tier1Engagement(row) + Tier1Favorites(row)
    + Tier1Age(row) + Tier1Lifetime(row) + Tier1Reply(row)
    + Tier1Similarity(row) + Tier1Concentration(row)

FarmPoints(username) == IF username \in troll_farm_usernames THEN Pts(15) ELSE 0

\* C7: the initial pass over the feature table gives every account a
\* troll-farm contribution of 0, and the final pass over the same table gives
\* each account the record of the initial pass except for that contribution:
\* equal tier2_score, tier3_score and verification flags, and a tier1_score
\* (and so a total before verification) 15 points higher when the username
\* is in the farm set, in however many farms, and equal otherwise.
C7_PassesDifferByFarmPoints ==
    /\ initial_scores # None =>
          /\ Len(The(initial_scores)) = Len(features)
          /\ \A i \in 1..Len(features) :
                The(initial_scores)[i].tier1_score = Tier1WithoutFarm(features[i])
    /\ (initial_scores # None /\ scores # None) =>
          /\ Len(The(scores)) = Len(The(initial_scores))
          /\ \A i \in 1..Len(The(scores)) :
                LET first == The(initial_scores)[i]
                    final == The(scores)[i]
                IN  /\ final.username = first.username
                    /\ final.user_id = first.user_id
                    /\ final.tier2_score = first.tier2_score
                    /\ final.tier3_score = first.tier3_score
                    /\ final.is_verified = first.is_verified
                    /\ final.has_blue = first.has_blue
                    /\ final.is_verified_or_blue = first.is_verified_or_blue
                    /\ final.tier1_score
                          = first.tier1_score + FarmPoints(final.username)
                    /\ final.total_score_before_verification
                          = first.total_score_before_verification
                            + FarmPoints(final.username)

\* C7 witness: after the final pass, an account that is a member of two farms
\* has exactly 15 points more in tier 1 than in the initial pass, and an
\* account outside every farm has the same tier 1 in both passes.
C7_Witness ==
    /\ initial_scores # None /\ scores # None
    /\ \E r1, r2 \in MemberRows :
          /\ r1.username = r2.username
          /\ r1.troll_farm_id # r2.troll_farm_id
          /\ \E i \in 1..Len(The(scores)) :
                /\ The(scores)[i].username = r1.username
                /\ The(scores)[i].tier1_score
                      = The(initial_scores)[i].tier1_score + Pts(15)
    /\ \E i \in 1..Len(The(scores)) :
          /\ The(scores)[i].username \notin troll_farm_usernames
          /\ The(scores)[i].tier1_score = The(initial_scores)[i].tier1_score

\* what holds in every state of a run of main
StagesSoFar ==
    /\ initial_scores # None =>
          /\ "output/user_features.csv" \in outputs
          /\ The(initial_scores) = calculate_all_scores(features, {})
    /\ bot_scores # None =>
          /\ initial_scores # None
          /\ bot_scores = initial_scores
    /\ identify_args # None =>
          /\ ArgScores = The(initial_scores)
          /\ ArgTweets = filter_original_tweets(data_files)
    /\ scores # None =>
          /\ identify_args # None /\ usernames_out # None
          /\ troll_farm_usernames = The(usernames_out)
          /\ troll_farm_usernames
                = get_troll_farm_usernames(
                      Some(identify_troll_farms(filter_original_tweets(data_files),
                                                The(initial_scores), 10, 50)))
          /\ The(scores) = calculate_all_scores(features, troll_farm_usernames)
    /\ pc = "done" => scores # None

\* what holds of every step of a run of main
StageStep ==
    /\ features' # features => initial_scores = None
    /\ initial_scores' # initial_scores => (initial_scores = None /\ bot_scores = None)
    /\ (bot_scores' # bot_scores \/ identify_args' # identify_args
            \/ troll_farm_members' # troll_farm_members
            \/ usernames_out' # usernames_out) =>
          (scores = None /\ scores' = None /\ final_file' = final_file)
    /\ identify_args # None => identify_args' = identify_args
    /\ scores' # scores => (scores = None /\ usernames_out # None)

\* C8: in every run of main the features are extracted before the initial
\* scoring, the detector reads the classifications of the initial pass, and
\* the final scoring uses the usernames that detection returned; the farm set
\* of the final pass is computed from the initial classifications only, and no
\* detector step happens once the final scores exist.
C8_StagesInOrder == [](StagesSoFar) /\ [][StageStep]_vars

\* C8 witness: a finished run in which the final pass changed an account's
\* classification, so that the final scores differ from the scores the
\* detector read.
C8_Witness ==
    /\ pc = "done"
    /\ troll_farm_usernames # {}
    /\ bot_scores = initial_scores
    /\ \E i \in 1..Len(The(scores)) :
          The(scores)[i].classification # The(initial_scores)[i].classification

FinalPassDone == pc \in {"report", "done"}

\* what a step of main leaves as it was, by the stage it runs
C25_StageStep ==
    /\ pc = "extract" =>
          /\ user_data' = user_data /\ loader_raw_tweets' = loader_raw_tweets
          /\ features = <<>>
    /\ pc = "initial_scoring" =>
          /\ features' = features /\ user_data' = user_data
          /\ initial_scores = None
    /\ pc = "identify" =>
          /\ bot_scores' = bot_scores /\ score_file' = score_file
          /\ initial_scores' = initial_scores /\ features' = features
          /\ user_data' = user_data
          /\ troll_farm_members = None /\ troll_farm_members' # None
    /\ pc = "final_scoring" =>
          /\ features' = features /\ user_data' = user_data
          /\ initial_scores' = initial_scores /\ score_file' = score_file
          /\ bot_scores' = bot_scores /\ troll_farm_members' = troll_farm_members
          /\ scores = None /\ scores' # None

\* C25: in main, extract_all_features leaves the account table as it was,
\* calculate_all_scores (both passes) leaves the feature table as it was, and
\* identify_troll_farms leaves the loaded score table, the initial scores and
\* the feature table as they were; each stage stores its result in an
\* attribute that held no table before.
C25_StagesLeaveInputs == [][C25_StageStep]_vars

\* C25 witness: a run with a farm has ended; the feature table is still the
\* one the extractor returned for the account table, and the score table the
\* detector loaded is still the initial score table
C25_Witness ==
    /\ pc = "done" /\ MemberRows # {}
    /\ features # <<>>
    /\ features = extract_all_features(The(user_data))
    /\ bot_scores = initial_scores
    /\ scores # initial_scores

\* C27: after the final pass, every account's final total_score is at least
\* its initial total_score and its final classification is not a lower band
\* than its initial one; when identification found no farm, the final score
\* table equals the initial score table.
C27_FinalNotBelowInitial ==
    FinalPassDone =>
        LET initial == The(initial_scores)
            final == The(scores)
        IN  /\ Len(final) = Len(initial)
            /\ \A i \in 1..Len(final) :
                  /\ final[i].username = initial[i].username
                  /\ final[i].total_score >= initial[i].total_score
                  /\ ClassRank(final[i].classification)
                        >= ClassRank(initial[i].classification)
            /\ MemberRows = {} => final = initial

\* C27 witness: the run ended with a farm; one member rose from Likely Bot
\* to Definite Bot, and another gained the farm points within its band
C27_Witness ==
    /\ pc = "done" /\ MemberRows # {}
    /\ \E i, j \in 1..Len(The(scores)) :
          /\ The(initial_scores)[i].classification = "Likely Bot"
          /\ The(scores)[i].classification = "Definite Bot"
          /\ The(scores)[j].total_score > The(initial_scores)[j].total_score
          /\ The(scores)[j].classification = The(initial_scores)[j].classification

\* C26: after the final pass, output/flagged_bots.csv as written by the run
\* holds the final score rows whose flagged_for_review is true, each exactly
\* once and no other row, in order of non-increasing total_score, none of
\* them with a total_score below 86; when no row is flagged nothing is
\* written.
C26_FlaggedOutput ==
    FinalPassDone =>
        LET final == The(scores)
            flagged == {i \in 1..Len(final) : final[i].flagged_for_review}
        IN  IF flagged = {} THEN flagged_file = None
            ELSE /\ flagged_file # None
                 /\ LET file == The(flagged_file)
                    IN  /\ Len(file) = Cardinality(flagged)
                        /\ \A i \in flagged :
                              Cardinality({k \in 1..Len(file) : file[k].score = final[i]}) = 1
                        /\ \A k \in 1..Len(file) :
                              /\ \E i \in flagged : file[k].score = final[i]
                              /\ file[k].score.total_score >= Pts(86)
                        /\ \A k \in 1..(Len(file) - 1) :
                              file[k].score.total_score >= file[k + 1].score.total_score

\* C26 witness: the run ended with a flagged account that stands before a
\* higher-scoring flagged account in the final score table, and with an
\* account that is not flagged
C26_Witness ==
    /\ pc = "done" /\ flagged_file # None
    /\ \E i, j \in 1..Len(The(scores)) :
          /\ i < j
          /\ The(scores)[i].flagged_for_review
          /\ The(scores)[j].flagged_for_review
          /\ The(scores)[i].total_score < The(scores)[j].total_score
    /\ \E i \in 1..Len(The(scores)) : ~The(scores)[i].flagged_for_review

(***************************************************************************)
(* Properties of the extractor                                             *)
(***************************************************************************)
\* the creation timestamp is missing or does not parse, or no tweet has a
\* timestamp
HasNoAge(user_row) ==
    user_row.created.kind # "date" \/ Timestamps(user_row.epoch) = <<>>

\* the points of the account-age indicator in a score row: tier 1 less the
\* other indicators
AgePoints(score_row, feature_row) ==
    score_row.tier1_score
    - (Tier1Ratio(feature_row) + Tier1Engagement(feature_row)
       + Tier1Favorites(feature_row) + Tier1Lifetime(feature_row)
       + Tier1Reply(feature_row) + Tier1Similarity(feature_row)
       + Tier1Concentration(feature_row))

\* C11: in a scored table, an account whose creation timestamp is missing or
\* unparsable, or that has no timestamped tweet, has null age fields and gets
\* 0 points from the account-age indicator, whatever the other accounts of
\* the table are.
C11_NullAgeScoresZero ==
    scores # None =>
        \A i \in 1..Len(accounts) :
            HasNoAge(accounts[i]) =>
                /\ features[i].account_created_date = None
                /\ features[i].account_age_days = None
                /\ features[i].first_tweet_date = None
                /\ AgePoints(The(scores)[i], features[i]) = 0

\* C12: every call of extract_all_features completes and leaves one feature
\* row per account record, in the order of the records, also when a record
\* has a null avatar URL, tweets whose timestamps are all null, or a creation
\* timestamp that does not parse.
C12_ExtractionCompletes ==
    extract_call.op = "extract_all_features" =>
        /\ ~extract_call.raised
        /\ extracted # None
        /\ Len(The(extracted)) = Len(accounts)
        /\ \A i \in 1..Len(accounts) :
              The(extracted)[i].username = accounts[i].username

\* C15: two calls of extract_all_features on the same account records return
\* the same feature table in every field, whatever day each call is made on.
C15_ExtractionDeterministic ==
    previous_features # None => extracted = previous_features

\* C13: when main stops with a failure exit because the corpus gives it
\* nothing to work on (no tweet data, no account, no tweets or scores for the
\* detector), no output file has been written in the run.
C13_FailureBeforeOutput ==
    pc = "exit" => outputs = {}

\* the indicators of a post that is kept: null, False (and the number equal
\* to it), the empty string, and the strings 'False', 'nan', '[]'
KeptCells ==
    {"null", "bool:False", "int:0", "str:", "str:False", "str:nan", "str:[]"}

OriginalPosts == SelectSeq(data_files, LAMBDA row : row.retweetedTweet \in KeptCells)

\* C18: in main, filter_original_tweets keeps exactly the posts whose retweet
\* indicator is null, False, the empty string or one of the strings 'False',
\* 'nan', '[]', in their order; identification reads only those, and the
\* members and the size of every farm are the posters of kept posts.
C18_OnlyOriginalPostsCount ==
    /\ pc = "identify" => The(raw_tweets) = OriginalPosts
    /\ identify_args # None =>
          /\ ArgTweets = OriginalPosts
          /\ \A r \in MemberRows :
                /\ r.username \in Posters(OriginalPosts, r.shared_message)
                /\ r.farm_size = Cardinality(Posters(OriginalPosts, r.shared_message))

\* C18 witness: the run found the farm of the ten cohort accounts; one more
\* account retweeted the farm's message and is not a member.
C18_Witness ==
    /\ usernames_out # None
    /\ \E r \in MemberRows : r.farm_size = 10
    /\ \E i \in 1..Len(data_files) :
          /\ data_files[i].username = "zed"
          /\ data_files[i].retweetedTweet = "str:{'id': 1}"
          /\ \E r \in MemberRows : r.shared_message = normalize_text(data_files[i].text)
    /\ "zed" \notin The(usernames_out)

(***************************************************************************)
(* Properties of the extractor and the scorer on one account               *)
(***************************************************************************)
\* the account record and, once extracted and scored, its feature row and
\* its score row
TheAccount == accounts[1]
TheFeatures == The(extracted)[1]
TheScore == The(scores)[1]
Scored == extracted # None /\ scores # None

AllCells(column, cell) == \A i \in 1..Len(column) : column[i] = cell

\* the account of the end-to-end scenario: what the scenario names, and the
\* missing-data default in every other cell
IsScenario(a) ==
    /\ a.username = BotName
    /\ a.followersCount = 1 /\ a.friendsCount = 10000
    /\ Len(a.text) = 50
    /\ a.text[1] # NaText /\ a.text[1] # <<>> /\ AllCells(a.text, a.text[1])
    /\ Len(a.epoch) = 50 /\ \A i \in 1..50 : a.epoch[i].kind = "date"
    /\ a.created.kind = "date"
    /\ \E i \in 1..50 :
          /\ \A j \in 1..50 : a.epoch[i].ordinal <= a.epoch[j].ordinal
          /\ a.epoch[i].year = a.created.year
          /\ a.epoch[i].month = a.created.month
    /\ a.profileImageUrl = Some(<<"abs", "Default_Profile">>)
    /\ ~a.verified /\ ~a.blue
    /\ a.statusesCount = 0 /\ a.favouritesCount = 0
    /\ a.rawDescription = "" /\ a.location = ""
    /\ AllCells(a.replyCount, NaNCount) /\ AllCells(a.retweetCount, NaNCount)
    /\ AllCells(a.likeCount, NaNCount)
    /\ AllCells(a.in_reply_to_status_id_str, NaN)
    /\ AllCells(a.hashtags, HashtagCell("nan", 0, 0))
    /\ AllCells(a.mentionedUsers, MentionCell("nan", 0))
    /\ AllCells(a.retweetedTweet, "null")

C22_SentinelRatio ==
    extracted # None =>
        LET followers == TheAccount.followersCount
            following == TheAccount.friendsCount
            ratio == TheFeatures.follower_following_ratio
        IN  /\ following = 0 =>
                  /\ ratio = 999000
                  /\ LowBand(ratio, 100, 300, 500) = 0
                  /\ scores # None => TheScore.tier1_score = ListedTier1(TheFeatures, {})
            /\ following # 0 =>
                  /\ 2 * (1000 * followers - ratio * following) <= following
                  /\ 2 * (ratio * following - 1000 * followers) <= following

\* C22 witness: an account without followers that follows nobody has been
\* extracted with the ratio 999 and scored
C22_Witness ==
    /\ Scored
    /\ TheAccount.followersCount = 0 /\ TheAccount.friendsCount = 0
    /\ TheFeatures.follower_following_ratio = 999000

\* a quotient rounded to 2 decimals, in thousandths
TwoDecimals(numerator, denominator) == 10 * RoundDiv(100 * numerator, denominator)

\* C23 (as claimed): follower_following_ratio and favorites_tweets_ratio are
\* emitted rounded to 2 decimal places, and the follower/following band is
\* the band of the 2-decimal value.
C23_RatiosRoundedToTwoDecimals ==
    extracted # None =>
        /\ TheAccount.friendsCount # 0 =>
              TheFeatures.follower_following_ratio
                  = TwoDecimals(TheAccount.followersCount, TheAccount.friendsCount)
        /\ TheAccount.statusesCount # 0 =>
              TheFeatures.favorites_tweets_ratio
                  = TwoDecimals(TheAccount.favouritesCount, TheAccount.statusesCount)

\* the positions of a username where a letter stands next to a digit
TransitionsLetterDigit(username) ==
    Cardinality({i \in 1..(Len(username) - 1) :
        \/ isalpha(username[i]) /\ isdigit(username[i + 1])
        \/ isdigit(username[i]) /\ isalpha(username[i + 1])})

\* C24 (as claimed): bot_username_pattern is true iff the username ends in
\* at least 6 digits, or contains a digit and has at least 3 positions where
\* a letter stands next to a digit.
C24_UsernamePattern ==
    extracted # None =>
        LET username == TheAccount.username
        IN  TheFeatures.bot_username_pattern <=>
                \/ \E k \in 6..Len(username) :
                      \A i \in (Len(username) - k + 1)..Len(username) :
                          isdigit(username[i])
                \/ /\ \E i \in 1..Len(username) : isdigit(username[i])
                   /\ TransitionsLetterDigit(username) >= 3

\* the tweets of the account as rows of the detector's tweet table
TweetRows(a) ==
    [i \in 1..Len(a.retweetedTweet) |->
        Tweet(a.username, a.text[i], a.retweetedTweet[i])]

\* C28 (as claimed): the posts counted in retweet_ratio_pct are the posts
\* that filter_original_tweets removes: the ratio is the percentage of the
\* account's posts that the filter removes.
C28_RetweetsAgree ==
    extracted # None =>
        LET rows == TweetRows(TheAccount)
            removed == Len(rows) - Len(filter_original_tweets(rows))
        IN  TheFeatures.retweet_ratio_pct = RoundDiv(10000 * removed, Len(rows))

====
